---- MODULE Spec2Model ----
(***************************************************************************)
(* Model of the notebook QA checkers of process-notebooks/checkers:        *)
(* qa_config.py (config filter), utils.py (reader, result writer) and the  *)
(* five checker CLIs (accessibility, doi, figure, metadata, test).         *)
(* Text is modelled as TLA+ strings; the regular expressions of the source *)
(* are run by a small backtracking matcher over sequences of atoms.        *)
(***************************************************************************)
EXTENDS Integers, Sequences, FiniteSets, TLC

VARIABLES
    pc,               \* position of the running function or CLI
    checker,          \* which checker CLI runs
    config_file,      \* the file .github/notebook-qa.yml
    config,           \* main(): value load_config returned
    check_id,         \* check identifier handed to the config filter
    argv,             \* notebook paths given on the command line
    notebooks,        \* main(): list being iterated / filter_notebooks(): result
    idx,              \* loop index into a list
    fs,               \* file system: path -> file content
    notebook_results, \* main(): dict path -> result
    overall_result,   \* main(): exit code accumulated so far
    exit_code,        \* exit status of the process (-1 while running)
    log,              \* history: <<path, result>> of every check made
    results_file,     \* content of <checker>-results.json, if written
    command_name,     \* write_results(): its first argument
    disk,             \* write_results(): output directory and its files
    cwd,              \* check_tests(): working directory and test runner
    threshold,        \* check_tests(): its argument coverage_threshold
    nb,               \* notebook read by the check function
    readme,           \* sibling README.md of the notebook
    result,           \* value returned by the check function
    dataset_dois,     \* check_doi: DOIs found in code-cell outputs
    cited_dois,       \* check_doi: DOIs found in markdown cells
    pending,          \* check_doi: sorted dataset DOIs still to resolve
    failed,           \* check_doi: failed flag
    unresolved_dois,  \* check_doi: DOIs that did not resolve
    responses,        \* answer to the HEAD request sent for each DOI
    found_date,       \* check_metadata: extracted date or "None"
    found_location    \* check_metadata: where the date was found

vars == <<pc, checker, config_file, config, check_id, argv, notebooks, idx, fs,
          notebook_results, overall_result, exit_code, log, results_file,
          command_name, disk, cwd, threshold, nb, readme, result, dataset_dois, cited_dois, pending, failed,
          unresolved_dois, responses, found_date, found_location>>

cliVars == <<checker, config_file, config, check_id, argv, notebooks, idx, fs,
             notebook_results, overall_result, exit_code, log, results_file,
             command_name, disk, cwd, threshold>>
doiVars == <<dataset_dois, cited_dois, pending, failed, unresolved_dois,
             responses>>
metaVars == <<readme, found_date, found_location>>

(***************************************************************************)
(* Strings                                                                 *)
(***************************************************************************)
Ch(s, i) == SubSeq(s, i, i)

UPPER == "ABCDEFGHIJKLMNOPQRSTUVWXYZ"
LOWER == "abcdefghijklmnopqrstuvwxyz"
DIGITS == "0123456789"

\* the least element of a set of positions, 0 for the empty set
FirstOf(S) == IF S = {} THEN 0 ELSE CHOOSE j \in S : \A m \in S : j <= m

\* str.find from position i on: the first position of character c, or 0
IndexOf(c, s, i) == FirstOf({j \in i..Len(s) : Ch(s, j) = c})

InStr(c, s) == IndexOf(c, s, 1) # 0

\* str.lower() on one character
LowerCh(c) ==
    IF \E i \in 1..Len(UPPER) : Ch(UPPER, i) = c
    THEN Ch(LOWER, CHOOSE i \in 1..Len(UPPER) : Ch(UPPER, i) = c)
    ELSE c

\* str.lower(), one half of the string after the other
RECURSIVE lower(_)
lower(s) ==
    IF Len(s) = 0 THEN ""
    ELSE IF Len(s) = 1 THEN LowerCh(s)
    ELSE lower(SubSeq(s, 1, Len(s) \div 2))
         \o lower(SubSeq(s, Len(s) \div 2 + 1, Len(s)))

\* str.strip(): leading and trailing whitespace removed
IsSpace(c) == c \in {" ", "\t", "\n", "\r", "\f"}

\* the positions of s that hold a character other than whitespace
NonSpaces(s) == {j \in 1..Len(s) : ~IsSpace(Ch(s, j))}

\* the greatest element of a non-empty set of positions
LastOf(S) == CHOOSE j \in S : \A m \in S : m <= j

lstrip(s) ==
    IF NonSpaces(s) = {} THEN "" ELSE SubSeq(s, FirstOf(NonSpaces(s)), Len(s))

rstrip(s) ==
    IF NonSpaces(s) = {} THEN "" ELSE SubSeq(s, 1, LastOf(NonSpaces(s)))

strip(s) == rstrip(lstrip(s))

\* `sub in s` for strings
ContainsFrom(sub, s, i) ==
    \E j \in i..(Len(s) - Len(sub) + 1) : SubSeq(s, j, j + Len(sub) - 1) = sub

Contains(sub, s) == ContainsFrom(sub, s, 1)

\* ''.join(list)
RECURSIVE join(_)
join(parts) == IF parts = <<>> THEN "" ELSE Head(parts) \o join(Tail(parts))

(***************************************************************************)
(* Regular expressions (module re).  A pattern is a sequence of atoms, an  *)
(* atom a character class with a repetition lo..hi, greedy or lazy; g1..g2 *)
(* are the atoms of capture group 1 (0 when the pattern has no group); a   *)
(* hi of -1 is an unbounded repetition.                                    *)
(***************************************************************************)
Atom(cls, ch, lo, hi, lazy) ==
    [cls |-> cls, ch |-> ch, lo |-> lo, hi |-> hi, lazy |-> lazy]

\* a literal string, taken once
Lit(s) == IF s = "" THEN <<>> ELSE <<Atom("str", s, 1, 1, FALSE)>>

Opt(c) == <<Atom("lit", c, 0, 1, FALSE)>>                \* c?
DigitN(lo, hi) == <<Atom("digit", "", lo, hi, FALSE)>>   \* \d{lo,hi}
SpaceStar == <<Atom("space", "", 0, -1, FALSE)>>       \* \s*
SpacePlus == <<Atom("space", "", 1, -1, FALSE)>>       \* \s+
NonSpacePlus == <<Atom("nonspace", "", 1, -1, FALSE)>> \* \S+
DotStarLazy == <<Atom("dot", "", 0, -1, TRUE)>>        \* .*?
NotStar(c) == <<Atom("not", c, 0, -1, FALSE)>>         \* [^c]*

\* (?:s)? for a literal string s
OptStr(s) == <<Atom("str", s, 0, 1, FALSE)>>

\* characters one repetition of the atom takes
Width(a) == IF a.cls = "str" THEN Len(a.ch) ELSE 1

\* two strings of one length that differ in case at most
EqualIgnoreCase(c, d) ==
    \A j \in 1..Len(d) : LowerCh(Ch(c, j)) = LowerCh(Ch(d, j))

InClass(c, a, ic) ==
    CASE a.cls = "lit" -> IF ic THEN LowerCh(c) = LowerCh(a.ch) ELSE c = a.ch
      [] a.cls = "str" -> IF ic THEN EqualIgnoreCase(c, a.ch) ELSE c = a.ch
      [] a.cls = "digit" -> InStr(c, DIGITS)
      [] a.cls = "space" -> IsSpace(c)
      [] a.cls = "nonspace" -> ~IsSpace(c)
      [] a.cls = "dot" -> c # "\n"
      [] a.cls = "not" -> c # a.ch
      [] a.cls = "doisuffix" ->   \* [-._;()/:A-Za-z0-9]
            InStr(c, "-._;()/:") \/ InStr(c, UPPER) \/ InStr(c, LOWER)
               \/ InStr(c, DIGITS)
      [] a.cls = "versionnum" -> c = "." \/ InStr(c, DIGITS)   \* [\d.]

\* the repetition of the atom after n others from pos on lies in s and
\* in the class of the atom
Rep(a, s, pos, ic, n) ==
    /\ pos + (n + 1) * Width(a) - 1 <= Len(s)
    /\ InClass(SubSeq(s, pos + n * Width(a), pos + (n + 1) * Width(a) - 1),
               a, ic)

\* the most repetitions the atom may take from pos on
Limit(a, s, pos) ==
    IF a.hi = -1 THEN (Len(s) - pos + 1) \div Width(a) ELSE a.hi

\* how many repetitions of the atom follow one another from pos on (at
\* most hi), lim being Limit(a, s, pos)
RunLen(a, s, pos, ic, lim) ==
    FirstOf({n \in 0..lim : n = lim \/ ~Rep(a, s, pos, ic, n)})

RECURSIVE MatchAtoms(_, _, _, _, _, _)
RECURSIVE MatchRun(_, _, _, _, _, _, _)
RECURSIVE TryCounts(_, _, _, _, _, _, _, _)
RECURSIVE TryRest(_, _, _, _, _, _, _, _, _)
\* the first match in backtracking order of atoms k.. at pos, acc being
\* the start positions of the atoms before k: the start position of each
\* atom followed by the end position, or <<>>; an atom with a fixed count
\* leaves nothing to backtrack
MatchAtoms(atoms, k, s, pos, ic, acc) ==
    CASE k > Len(atoms) -> Append(acc, pos)
      [] k <= Len(atoms) /\ atoms[k].lo # atoms[k].hi ->
            MatchRun(atoms, k, s, pos, ic, acc,
                     RunLen(atoms[k], s, pos, ic, Limit(atoms[k], s, pos)))
      [] k <= Len(atoms) /\ atoms[k].lo = atoms[k].hi
            /\ \A n \in 0..(atoms[k].lo - 1) : Rep(atoms[k], s, pos, ic, n) ->
            MatchAtoms(atoms, k + 1, s, pos + atoms[k].lo * Width(atoms[k]),
                       ic, Append(acc, pos))
      [] OTHER -> <<>>

\* atom k can repeat mx times at pos: a greedy atom tries mx first, a
\* lazy one its minimum
MatchRun(atoms, k, s, pos, ic, acc, mx) ==
    IF mx < atoms[k].lo THEN <<>>
    ELSE TryCounts(atoms, k, s, pos, ic, acc,
                   IF atoms[k].lazy THEN atoms[k].lo ELSE mx, mx)

\* atom k taken n times, then the rest of the pattern
TryCounts(atoms, k, s, pos, ic, acc, n, mx) ==
    TryRest(atoms, k, s, pos, ic, acc, n, mx,
            MatchAtoms(atoms, k + 1, s, pos + n * Width(atoms[k]), ic,
                       Append(acc, pos)))

\* backtracking: when the rest does not match, the next count of atom k
TryRest(atoms, k, s, pos, ic, acc, n, mx, rest) ==
    CASE rest # <<>> -> rest
      [] rest = <<>> /\ atoms[k].lazy /\ n < mx ->
            TryCounts(atoms, k, s, pos, ic, acc, n + 1, mx)
      [] rest = <<>> /\ ~atoms[k].lazy /\ n > atoms[k].lo ->
            TryCounts(atoms, k, s, pos, ic, acc, n - 1, mx)
      [] OTHER -> <<>>

Pattern(atoms, g1, g2) == [atoms |-> atoms, g1 |-> g1, g2 |-> g2]

\* text of a match m: group 1 when the pattern has one, else the whole match
Captured(p, s, m) ==
    IF p.g1 = 0 THEN SubSeq(s, m[1], m[Len(m)] - 1)
    ELSE SubSeq(s, m[p.g1], m[p.g2 + 1] - 1)

\* re.search: the leftmost match at or after start, or <<>>
SearchStep(p, s, ic, st) ==
    IF st = 0 THEN <<>> ELSE MatchAtoms(p.atoms, 1, s, st, ic, <<>>)

\* the leftmost position at or after start where a match begins
SearchFrom(p, s, ic, start) ==
    SearchStep(p, s, ic,
               FirstOf({st \in start..(Len(s) + 1) :
                           MatchAtoms(p.atoms, 1, s, st, ic, <<>>) # <<>>}))

re_search(p, s, ic) == SearchFrom(p, s, ic, 1)

RECURSIVE FindAllFrom(_, _, _, _)
RECURSIVE FindAllStep(_, _, _, _)
\* re.findall, as the sequence of captured texts of the successive
\* non-overlapping matches
FindAllFrom(p, s, ic, start) ==
    FindAllStep(p, s, ic, SearchFrom(p, s, ic, start))

\* m is the next match, if any; the search resumes at its end (one
\* character further after an empty match)
FindAllStep(p, s, ic, m) ==
    IF m = <<>> THEN <<>>
    ELSE <<Captured(p, s, m)>> \o
         FindAllFrom(p, s, ic,
                     IF m[Len(m)] > m[1] THEN m[Len(m)] ELSE m[1] + 1)

re_findall(p, s, ic) == FindAllFrom(p, s, ic, 1)

\* re.match of ^...$ : a match at the start that ends at the end of the
\* string or just before a final newline
\* "$": the match m ends at the end of s or just before a final newline
EndsAtEnd(s, m) ==
    /\ m # <<>>
    /\ \/ m[Len(m)] = Len(s) + 1
       \/ m[Len(m)] = Len(s) /\ Ch(s, Len(s)) = "\n"

re_fullmatch(p, s, ic) == EndsAtEnd(s, MatchAtoms(p.atoms, 1, s, 1, ic, <<>>))

Range(f) == {f[i] : i \in DOMAIN f}

(***************************************************************************)
(* metadata_checker.py: date_patterns                                      *)
(***************************************************************************)
DateAtoms == DigitN(4, 4) \o Lit("-") \o DigitN(2, 2) \o Lit("-") \o DigitN(2, 2)

\* p with the date as its group 1, which follows the atoms of pre
DatePattern(pre) == Pattern(pre \o DateAtoms, Len(pre) + 1, Len(pre) + 5)

date_patterns == <<
    DatePattern(Lit("last") \o SpacePlus \o Lit("updated") \o Opt(":")
                \o SpaceStar),
    DatePattern(Lit("version") \o Opt(":") \o SpaceStar
                \o <<Atom("versionnum", "", 1, -1, FALSE)>> \o SpaceStar
                \o Lit("(")),
    DatePattern(Lit("modified") \o Opt(":") \o SpaceStar),
    DatePattern(Lit("date") \o Opt(":") \o SpaceStar),
    DatePattern(Lit("updated") \o Opt(":") \o SpaceStar) >>

\* k is the first pattern that matches text, 0 if none does: its date
FirstDateStep(text, k) ==
    IF k = 0 THEN "None"
    ELSE Captured(date_patterns[k], text,
                  re_search(date_patterns[k], text, TRUE))

\* the loop over date_patterns from the k-th on with
\* re.search(pattern, text, re.IGNORECASE): group 1 of the first pattern
\* that matches, or "None"
FirstDate(text, k) ==
    FirstDateStep(text,
                  FirstOf({j \in k..Len(date_patterns) :
                              re_search(date_patterns[j], text, TRUE) # <<>>}))

(***************************************************************************)
(* Notebooks.  A file is Missing, Invalid (not JSON) or a notebook with    *)
(* cells and metadata; a cell is [cell_type, source, outputs] with source   *)
(* the list of strings nbformat stores (a plain string is the one-element  *)
(* list).                                                                  *)
(***************************************************************************)
SeqUpTo(S, n) == UNION {[1..k -> S] : k \in 0..n}

Md(parts) == [cell_type |-> "markdown", source |-> parts, outputs |-> <<>>]
Code(outputs) == [cell_type |-> "code", source |-> <<"plot()">>,
                  outputs |-> outputs]
Notebook(cells, metadata) ==
    [kind |-> "notebook", cells |-> cells, metadata |-> metadata]
Missing == [kind |-> "missing"]   \* no such file
Invalid == [kind |-> "invalid"]   \* a file that is not JSON
EmptyDict == [k \in {} |-> ""]
\* no <checker>-results.json in the output directory
NoResultsFile == [written |-> FALSE, command |-> "none", results |-> EmptyDict]

IsNotebook(file) == file.kind = "notebook"

extract_cell_source(cell) == join(cell.source)

\* test_checker.py line 20: the default of coverage_threshold, in percent
coverage_threshold == 80

\* values that variables hold while the part of the program they belong to
\* is not running
CliIdle ==
    /\ checker = "none" /\ config_file = <<>> /\ config = <<>>
    /\ check_id = "none"
    /\ argv = <<>> /\ notebooks = <<>> /\ idx = 0 /\ fs = <<>>
    /\ notebook_results = <<>> /\ overall_result = 0 /\ exit_code = -1
    /\ log = <<>> /\ results_file = NoResultsFile
    /\ command_name = "none" /\ disk = <<>>
    /\ cwd = <<>> /\ threshold = coverage_threshold
DoiIdle ==
    /\ dataset_dois = {} /\ cited_dois = {} /\ pending = <<>>
    /\ failed = FALSE /\ unresolved_dois = <<>> /\ responses = EmptyDict
MetaIdle == readme = "missing" /\ found_date = "None" /\ found_location = "None"

(***************************************************************************)
(* metadata_checker.py: check_metadata(notebook_path, check_readme=True)   *)
(***************************************************************************)
MaxMetaCells == 2

metadata_fields_order == <<"date", "modified", "version", "last_updated">>

MetaDicts == {
    EmptyDict,
    [date |-> "2025-01-15"],
    [version |-> "date: 2021-01-01"],
    [last_updated |-> "2022-07-08", version |-> "4"],
    [modified |-> "modified: 2020-03-04", date |-> "Date 2019-09-09"] }

MetaCells == {
    Md(<<"**Last updated:** 2025-01-15">>),
    Md(<<"Last updated: ", "2025-01-15">>),
    Md(<<"# Intro\n">>),
    Md(<<"Released 2023-05-06">>),
    Code(<<>>) }

Readmes == {"missing", "unreadable", "", "# Repo\nUpdated: 2018-08-08\n",
            "see 2017-07-07"}

MetaNotebooks ==
    {Missing, Invalid} \cup
    {Notebook(c, m) : c \in SeqUpTo(MetaCells, MaxMetaCells), m \in MetaDicts}

\* str(notebook.metadata[field]) searched for a date, "None" for a field
\* the notebook does not have
FieldDate(metadata, k) ==
    IF metadata_fields_order[k] \in DOMAIN metadata
    THEN FirstDate(metadata[metadata_fields_order[k]], 1) ELSE "None"

\* k is the first field with a date, 0 if there is none
FoundInField(metadata, k) ==
    IF k = 0 THEN <<"None", "None">>
    ELSE <<FieldDate(metadata, k), "metadata." \o metadata_fields_order[k]>>

\* lines 44-56: the first field, in order from the k-th on, whose str()
\* value matches a date pattern, as <<date, location>>
ScanMetadataFields(metadata, k) ==
    FoundInField(metadata,
                 FirstOf({j \in k..Len(metadata_fields_order) :
                             FieldDate(metadata, j) # "None"}))

\* the source of a markdown cell searched for a date, "None" for a cell
\* of another type
CellDate(cells, k) ==
    IF cells[k].cell_type = "markdown"
    THEN FirstDate(extract_cell_source(cells[k]), 1) ELSE "None"

\* k is the first markdown cell with a date, 0 if there is none
FoundInCell(cells, k) ==
    IF k = 0 THEN <<"None", "None">>
    ELSE <<CellDate(cells, k), "markdown cell " \o ToString(k - 1)>>

\* lines 60-73: the first markdown cell, in order from the k-th on, whose
\* source matches a date pattern (cell_idx is 0-based in the source)
ScanMarkdownCells(cells, k) ==
    FoundInCell(cells,
                FirstOf({j \in k..Len(cells) : CellDate(cells, j) # "None"}))

\* lines 76-90: README.md next to the notebook; a read error is swallowed
ScanReadme(file) ==
    IF file \in {"missing", "unreadable"} THEN <<"None", "None">>
    ELSE LET d == FirstDate(file, 1)
         IN IF d # "None" THEN <<d, "README.md">> ELSE <<"None", "None">>

MetaInit ==
    /\ CliIdle /\ DoiIdle
    /\ pc = "meta_start"
    /\ nb \in MetaNotebooks
    /\ readme \in Readmes
    /\ result = "none"
    /\ found_date = "None" /\ found_location = "None"

\* line 38: read_notebook of utils.py exits the process on any read error
MetaRead ==
    /\ pc = "meta_start"
    /\ IF IsNotebook(nb)
       THEN pc' = "meta_fields" /\ UNCHANGED result
       ELSE pc' = "exit" /\ result' = "SystemExit"
    /\ UNCHANGED <<cliVars, doiVars, metaVars, nb>>

MetaFields ==
    /\ pc = "meta_fields"
    /\ LET r == ScanMetadataFields(nb.metadata, 1)
       IN found_date' = r[1] /\ found_location' = r[2]
    /\ pc' = "meta_markdown"
    /\ UNCHANGED <<cliVars, doiVars, nb, readme, result>>

MetaMarkdown ==
    /\ pc = "meta_markdown"
    /\ IF found_date = "None"
       THEN LET r == ScanMarkdownCells(nb.cells, 1)
            IN found_date' = r[1] /\ found_location' = r[2]
       ELSE UNCHANGED <<found_date, found_location>>
    /\ pc' = "meta_readme"
    /\ UNCHANGED <<cliVars, doiVars, nb, readme, result>>

MetaReadme ==
    /\ pc = "meta_readme"
    /\ IF found_date = "None"
       THEN LET r == ScanReadme(readme)
            IN found_date' = r[1] /\ found_location' = r[2]
       ELSE UNCHANGED <<found_date, found_location>>
    /\ pc' = "meta_return"
    /\ UNCHANGED <<cliVars, doiVars, nb, readme, result>>

MetaReturn ==
    /\ pc = "meta_return"
    /\ result' = IF found_date # "None" THEN "success" ELSE "failure"
    /\ pc' = "done"
    /\ UNCHANGED <<cliVars, doiVars, metaVars, nb>>

MetaNext == MetaRead \/ MetaFields \/ MetaMarkdown \/ MetaReadme \/ MetaReturn

SpecMeta == MetaInit /\ [][MetaNext]_vars

\* a YYYY-MM-DD date occurs in the text
HasDate(text) == re_search(Pattern(DateAtoms, 0, 0), text, FALSE) # <<>>

RECURSIVE FirstMarkdown(_, _)
\* 1-based index of the first markdown cell at or after k, 0 when none
FirstMarkdown(cells, k) ==
    IF k > Len(cells) THEN 0
    ELSE IF cells[k].cell_type = "markdown" THEN k
    ELSE FirstMarkdown(cells, k + 1)

FieldsWithDate(metadata) ==
    {k \in 1..Len(metadata_fields_order) :
        /\ metadata_fields_order[k] \in DOMAIN metadata
        /\ HasDate(metadata[metadata_fields_order[k]])}

LastUpdatedExample == "**Last updated:** 2025-01-15"

\* C7: check_metadata returns "success" with date 2025-01-15 when the first
\* markdown cell contains `**Last updated:** 2025-01-15` (read here in the
\* claim's favour: no metadata field holds a date), and "failure" when
\* neither the notebook nor README.md contains a date.
C7_LastUpdatedInFirstMarkdown ==
    pc = "done" =>
      /\ (/\ FieldsWithDate(nb.metadata) = {}
          /\ FirstMarkdown(nb.cells, 1) # 0
          /\ Contains(LastUpdatedExample,
                      extract_cell_source(nb.cells[FirstMarkdown(nb.cells, 1)])))
         => (result = "success" /\ found_date = "2025-01-15")
      /\ (/\ FieldsWithDate(nb.metadata) = {}
          /\ \A k \in 1..Len(nb.cells) :
                nb.cells[k].cell_type = "markdown"
                   => ~HasDate(extract_cell_source(nb.cells[k]))
          /\ (readme \in {"missing", "unreadable"} \/ ~HasDate(readme)))
         => result = "failure"

\* the place C8 expects check_metadata to report: the first of the metadata
\* fields (one holding a date), the first markdown cell and README.md (one
\* matching a date pattern) that holds a date
C8_ExpectedLocation ==
    LET f == FieldsWithDate(nb.metadata)
        m == FirstMarkdown(nb.cells, 1)
    IN IF f # {}
       THEN "metadata." \o
            metadata_fields_order[CHOOSE k \in f : \A j \in f : k <= j]
       ELSE IF m # 0 /\ FirstDate(extract_cell_source(nb.cells[m]), 1) # "None"
       THEN "markdown cell " \o ToString(m - 1)
       ELSE ScanReadme(readme)[2]

\* C8: the date is looked for in the metadata fields date, modified,
\* version, last_updated (a field holding a date is enough for "success"),
\* else in the first markdown cell only, else in README.md; the reported
\* location is the first of these places that holds a date.
C8_PriorityOrder ==
    pc = "done" =>
      /\ found_location = C8_ExpectedLocation
      /\ result = (IF C8_ExpectedLocation = "None" THEN "failure" ELSE "success")

(***************************************************************************)
(* Outputs of a code cell are dicts: a key that is absent is absent from   *)
(* the record.  A payload (the value of output['text'] or of a MIME type   *)
(* in output['data']) is [type, parts]: a "str", a "list" of strings, a    *)
(* "dict", or a "numlist" (a JSON list whose items are not strings).       *)
(***************************************************************************)
Str(text) == [type |-> "str", parts |-> <<text>>]
List(parts) == [type |-> "list", parts |-> parts]

\* dict.get(key, default)
Get(d, key, default) == IF key \in DOMAIN d THEN d[key] ELSE default

(***************************************************************************)
(* figure_checker.py: check_figures(notebook_path)                         *)
(***************************************************************************)
MaxFigCells == 5

source_patterns == <<
    Pattern(Lit("source") \o Opt(":") \o SpacePlus \o NonSpacePlus, 0, 0),
    Pattern(Lit("data") \o SpacePlus \o Lit("from") \o Opt(":") \o SpaceStar,
            0, 0),
    Pattern(Lit("doi") \o Opt(":") \o SpaceStar \o Lit("10.")
            \o DigitN(1, -1), 0, 0),
    Pattern(Lit("http") \o Opt("s") \o Lit("://") \o NonSpacePlus, 0, 0),
    Pattern(Lit("credit") \o Opt(":") \o SpaceStar, 0, 0),
    Pattern(Lit("attribution") \o Opt(":") \o SpaceStar, 0, 0),
    Pattern(Lit("reference") \o Opt(":") \o SpaceStar, 0, 0),
    Pattern(Lit("dataset") \o Opt(":") \o SpaceStar, 0, 0) >>

\* lines 82-85: some source pattern is found in the text (re.IGNORECASE)
MatchesSourcePattern(text) ==
    \E k \in 1..Len(source_patterns) :
        re_search(source_patterns[k], text, TRUE) # <<>>

FigCells == {
    Md(<<"Source: NASA">>),
    Md(<<"**Source:**">>),
    Md(<<"Data: ", "https://x.org/d">>),
    Code(<<[output_type |-> "display_data",
            data |-> ("image/png" :> Str("iVBOR")) @@
                     ("text/plain" :> Str("<Figure>"))],
           [output_type |-> "execute_result",
            data |-> ("image/jpeg" :> Str("/9j/4"))]>>),
    Code(<<[output_type |-> "display_data",
            data |-> ("image/svg+xml" :> Str("<svg/>"))]>>),
    Code(<<[output_type |-> "stream", text |-> List(<<"done\n">>)],
           [output_type |-> "execute_result",
            data |-> ("text/plain" :> Str("42"))]>>) }

FigNotebooks ==
    {Missing, Invalid} \cup
    {Notebook(c, EmptyDict) : c \in SeqUpTo(FigCells, MaxFigCells)}

\* lines 82-85 for every markdown cell the model draws, computed once
HasSourceTable ==
    [c \in {x \in FigCells : x.cell_type = "markdown"} |->
        MatchesSourcePattern(extract_cell_source(c))]

figure_mime_types == {"image/png", "image/jpeg", "image/jpg"}

\* lines 65-69: the output is a figure
IsFigureOutput(output) ==
    /\ Get(output, "output_type", "None") \in {"display_data", "execute_result"}
    /\ DOMAIN Get(output, "data", EmptyDict) \cap figure_mime_types # {}

\* a window of one cell on each side only
figure_offsets_NearOnly == <<-1, 1>>

figure_offsets == <<-2, -1, 1, 2>>

RECURSIVE HasSourceNearby(_, _, _)
\* lines 72-88: the loop over the offsets, from the k-th on; cell_idx is
\* the 0-based index of the figure's cell
HasSourceNearby(cells, cell_idx, k) ==
    IF k > Len(figure_offsets) THEN FALSE
    ELSE LET check_idx == cell_idx + figure_offsets[k]
         IN IF /\ 0 <= check_idx /\ check_idx < Len(cells)
               /\ cells[check_idx + 1].cell_type = "markdown"
               /\ HasSourceTable[cells[check_idx + 1]]
            THEN TRUE
            ELSE HasSourceNearby(cells, cell_idx, k + 1)

RECURSIVE FigureIssuesOfOutputs(_, _, _, _)
\* lines 64-91: the issues of one code cell, one per figure output
FigureIssuesOfOutputs(cells, cell_idx, outputs, k) ==
    IF k > Len(outputs) THEN <<>>
    ELSE (IF IsFigureOutput(outputs[k]) /\ ~HasSourceNearby(cells, cell_idx, 1)
          THEN <<cell_idx>> ELSE <<>>)
         \o FigureIssuesOfOutputs(cells, cell_idx, outputs, k + 1)

RECURSIVE FigureIssues(_, _)
\* lines 60-91: the issues of the cells from the k-th on, as the 0-based
\* indices of the cells they name
FigureIssues(cells, k) ==
    IF k > Len(cells) THEN <<>>
    ELSE (IF cells[k].cell_type = "code"
          THEN FigureIssuesOfOutputs(cells, k - 1, cells[k].outputs, 1)
          ELSE <<>>)
         \o FigureIssues(cells, k + 1)

\* lines 51-102: a notebook that cannot be read is a "failure"
check_figures(file) ==
    IF ~IsNotebook(file) THEN "failure"
    ELSE IF FigureIssues(file.cells, 1) = <<>> THEN "success" ELSE "failure"

FigInit ==
    /\ CliIdle /\ DoiIdle /\ MetaIdle
    /\ pc = "fig_start"
    /\ nb \in FigNotebooks
    /\ result = "none"

FigCheck ==
    /\ pc = "fig_start"
    /\ result' = check_figures(nb)
    /\ pc' = "done"
    /\ UNCHANGED <<cliVars, doiVars, metaVars, nb>>

FigNext == FigCheck

SpecFig == FigInit /\ [][FigNext]_vars

\* the cell is a markdown cell containing a source-attribution pattern
HasAttribution(cell) == cell.cell_type = "markdown" /\ HasSourceTable[cell]

\* the code cell has a display_data/execute_result output with a payload
\* of one of the MIME types
HasOutputWithMime(cell, mimes) ==
    /\ cell.cell_type = "code"
    /\ \E k \in 1..Len(cell.outputs) :
          /\ "output_type" \in DOMAIN cell.outputs[k]
          /\ cell.outputs[k].output_type \in {"display_data", "execute_result"}
          /\ "data" \in DOMAIN cell.outputs[k]
          /\ DOMAIN cell.outputs[k].data \cap mimes # {}

AttributedWithin2(cells, i) ==
    \E d \in {-2, -1, 1, 2} :
        i + d \in 1..Len(cells) /\ HasAttribution(cells[i + d])

AllMimeTypes ==
    UNION {UNION {DOMAIN Get(c.outputs[k], "data", EmptyDict) :
                     k \in 1..Len(c.outputs)} : c \in FigCells}

ImageMimeTypes == {m \in AllMimeTypes : SubSeq(m, 1, 6) = "image/"}

\* C6 as stated: check_figures returns "success" iff every code cell that
\* has a display_data/execute_result output with an image MIME payload has
\* a markdown cell with a source-attribution pattern at offset -2, -1, +1
\* or +2 (in range).
C6_AnyImageMime ==
    (pc = "done" /\ IsNotebook(nb)) =>
       (result = "success" <=>
          \A i \in 1..Len(nb.cells) :
             HasOutputWithMime(nb.cells[i], ImageMimeTypes)
                => AttributedWithin2(nb.cells, i))

\* C6 as amended: "success" iff every code cell that has a
\* display_data/execute_result output with an image/png, image/jpeg or
\* image/jpg payload has a markdown cell with a source-attribution pattern
\* at offset -2, -1, +1 or +2 (in range); an image of another MIME type
\* (image/svg+xml) is no figure.
C6_FigureWindow ==
    (pc = "done" /\ IsNotebook(nb)) =>
       (result = "success" <=>
          \A i \in 1..Len(nb.cells) :
             HasOutputWithMime(nb.cells[i],
                               {"image/png", "image/jpeg", "image/jpg"})
                => AttributedWithin2(nb.cells, i))

\* a figure whose only attribution is the markdown cell exactly 2 cells
\* before it has passed, in a notebook that has a cell 2 after it too
C6_Witness ==
    /\ pc = "done" /\ IsNotebook(nb) /\ result = "success"
    /\ \E i \in 3..(Len(nb.cells) - 2) :
          /\ HasOutputWithMime(nb.cells[i], {"image/png"})
          /\ HasAttribution(nb.cells[i - 2])
          /\ \A d \in {-1, 1, 2} : ~HasAttribution(nb.cells[i + d])

(***************************************************************************)
(* accessibility_checker.py: check_accessibility(notebook_path)            *)
(* BeautifulSoup is a library: a markdown cell carries, as imgs, the       *)
(* attribute dicts of the img elements that                                *)
(* BeautifulSoup(source, 'html.parser').find_all('img') yields for it.     *)
(***************************************************************************)
MaxAccCells == 2

MdHtml(parts, imgs) ==
    [cell_type |-> "markdown", source |-> parts, outputs |-> <<>>,
     imgs |-> imgs]

\* line 47: r'!\[(.*?)\]\([^)]*\)'
md_image_pattern ==
    Pattern(Lit("![") \o DotStarLazy \o Lit("](") \o NotStar(")") \o Lit(")"),
            2, 2)

\* line 48: r'!\[(.*?)\]\[[^\]]*\]'
ref_image_pattern ==
    Pattern(Lit("![") \o DotStarLazy \o Lit("][") \o NotStar("]") \o Lit("]"),
            2, 2)

AccCells == {
    Md(<<"# Results\n", "No pictures here.">>),
    MdHtml(<<"<img src=\"a.png\" alt=\"A cat\">">>,
           <<[src |-> "a.png", alt |-> "A cat"]>>),
    MdHtml(<<"<p><img src=\"a.png\"></p>">>, <<[src |-> "a.png"]>>),
    MdHtml(<<"<img src=\"a.png\" alt=\" \">">>,
           <<[src |-> "a.png", alt |-> " "]>>),
    MdHtml(<<"<img alt=\"\" src=\"a.png\"><img alt=\"b\" src=\"b.png\">">>,
           <<[alt |-> "", src |-> "a.png"], [alt |-> "b", src |-> "b.png"]>>),
    Md(<<"![plot of x](a.png)">>),
    Md(<<"![](a.png) and ", "![ ][ref]">>),
    Md(<<"![logo][ref]\n\n[ref]: a.png">>),
    Md(<<"![logo][r] and ![](u.png)">>),
    Code(<<[output_type |-> "display_data",
            data |-> ("image/png" :> Str("iVBOR")),
            metadata |-> [alt_text |-> "Chart of x"]]>>),
    Code(<<[output_type |-> "display_data",
            data |-> ("image/png" :> Str("iVBOR")),
            metadata |-> EmptyDict]>>),
    Code(<<[output_type |-> "execute_result",
            data |-> ("image/jpeg" :> Str("/9j/4")),
            metadata |-> [alt_text |-> "", alt |-> "Photo"]]>>),
    Code(<<[output_type |-> "display_data",
            data |-> ("image/jpeg" :> Str("/9j/4")),
            metadata |-> [alt_text |-> " "]]>>),
    Code(<<[output_type |-> "display_data",
            data |-> ("image/jpg" :> Str("/9j/4"))]>>),
    Code(<<[output_type |-> "display_data",
            data |-> ("image/svg+xml" :> Str("<svg/>"))],
           [output_type |-> "stream", text |-> Str("ok\n")]>>) }

AccNotebooks ==
    {Missing, Invalid} \cup
    {Notebook(c, EmptyDict) : c \in SeqUpTo(AccCells, MaxAccCells)}

\* `not value` for a string
Falsy(value) == value = ""

\* lines 41-44: the img elements of the cell that raise an issue
HtmlImgIssues(cell) ==
    SelectSeq(Get(cell, "imgs", <<>>),
              LAMBDA img : Falsy(strip(Get(img, "alt", ""))))

\* lines 47-51: the markdown images of the source that raise an issue
MarkdownImageIssues(source) ==
    SelectSeq(re_findall(md_image_pattern, source, FALSE)
                 \o re_findall(ref_image_pattern, source, FALSE),
              LAMBDA alt_text : Falsy(strip(alt_text)))

\* lines 57-64: the output raises an issue
OutputMissingAlt(output) ==
    /\ Get(output, "output_type", "None") \in {"display_data", "execute_result"}
    /\ DOMAIN Get(output, "data", EmptyDict) \cap figure_mime_types # {}
    /\ Falsy(Get(Get(output, "metadata", EmptyDict), "alt_text", ""))
    /\ Falsy(Get(Get(output, "metadata", EmptyDict), "alt", ""))

\* lines 35-64: the number of issues one cell raises
AccCellIssues(cell) ==
    IF cell.cell_type = "markdown"
    THEN Len(HtmlImgIssues(cell))
         + Len(MarkdownImageIssues(extract_cell_source(cell)))
    ELSE IF cell.cell_type = "code"
    THEN Len(SelectSeq(cell.outputs, OutputMissingAlt))
    ELSE 0

\* lines 35-64 for every cell the model draws, computed once
AccIssuesTable == [c \in AccCells |-> AccCellIssues(c)]

RECURSIVE AccIssues(_, _)
\* lines 34-64: the number of issues of the cells from the k-th on
AccIssues(cells, k) ==
    IF k > Len(cells) THEN 0
    ELSE AccIssuesTable[cells[k]] + AccIssues(cells, k + 1)

AccInit ==
    /\ CliIdle /\ DoiIdle /\ MetaIdle
    /\ pc = "acc_start"
    /\ nb \in AccNotebooks
    /\ result = "none"

\* line 30: read_notebook of utils.py exits the process on any read error
AccRead ==
    /\ pc = "acc_start"
    /\ IF IsNotebook(nb)
       THEN pc' = "acc_scan" /\ UNCHANGED result
       ELSE pc' = "exit" /\ result' = "SystemExit"
    /\ UNCHANGED <<cliVars, doiVars, metaVars, nb>>

\* lines 32-74
AccScan ==
    /\ pc = "acc_scan"
    /\ result' = IF AccIssues(nb.cells, 1) = 0 THEN "success" ELSE "failure"
    /\ pc' = "done"
    /\ UNCHANGED <<cliVars, doiVars, metaVars, nb>>

AccNext == AccRead \/ AccScan

SpecAcc == AccInit /\ [][AccNext]_vars

\* the alt texts of the Markdown images of a text, inline ![alt](url) and
\* reference ![alt][ref], each image taken by itself (no "]" in its alt)
MarkdownImageAlts(text) ==
    re_findall(Pattern(Lit("![") \o NotStar("]") \o Lit("](") \o NotStar(")")
                       \o Lit(")"), 2, 2), text, FALSE)
    \o re_findall(Pattern(Lit("![") \o NotStar("]") \o Lit("][")
                          \o NotStar("]") \o Lit("]"), 2, 2), text, FALSE)

\* the cell holds an image that C9 calls an issue; "empty" is read in the
\* code's favour: blank for the alt of markdown cells, "" for the metadata
\* of outputs, and image/jpg counts as an image output
C9_CellHasIssue(cell) ==
    \/ /\ cell.cell_type = "markdown"
       /\ \/ \E k \in 1..Len(Get(cell, "imgs", <<>>)) :
                \/ "alt" \notin DOMAIN cell.imgs[k]
                \/ strip(cell.imgs[k].alt) = ""
          \/ \E k \in DOMAIN MarkdownImageAlts(extract_cell_source(cell)) :
                strip(MarkdownImageAlts(extract_cell_source(cell))[k]) = ""
    \/ /\ cell.cell_type = "code"
       /\ \E k \in 1..Len(cell.outputs) :
             LET o == cell.outputs[k]
             IN /\ o.output_type \in {"display_data", "execute_result"}
                /\ "data" \in DOMAIN o
                /\ DOMAIN o.data \cap {"image/png", "image/jpeg", "image/jpg"}
                      # {}
                /\ \A key \in {"alt_text", "alt"} :
                      \/ "metadata" \notin DOMAIN o
                      \/ key \notin DOMAIN o.metadata
                      \/ o.metadata[key] = ""

C9_IssueTable == [c \in AccCells |-> C9_CellHasIssue(c)]

\* C9: check_accessibility returns "failure" iff at least one issue is
\* found: an HTML img in a markdown cell with empty or absent alt, a
\* Markdown image (inline or reference form) with empty alt text, or an
\* image-bearing code-cell output without a non-empty alt_text or alt.
C9_FailureIffIssue ==
    pc = "done" =>
       (result = "failure" <=>
           \E k \in 1..Len(nb.cells) : C9_IssueTable[nb.cells[k]])

(***************************************************************************)
(* doi_checker.py                                                          *)
(***************************************************************************)
MaxDoiCells == 3

\* 10\.\d{4,9}/[-._;()/:A-Za-z0-9]+
DoiAtoms ==
    Lit("10.") \o DigitN(4, 9) \o Lit("/")
    \o <<Atom("doisuffix", "", 1, -1, FALSE)>>

\* lines 37-41
DOI_PATTERNS == <<
    Pattern(DoiAtoms, 0, 0),
    Pattern(Lit("doi.org/") \o DoiAtoms, 2, 1 + Len(DoiAtoms)),
    Pattern(Lit("http") \o Opt("s") \o Lit("://") \o OptStr("dx.")
            \o Lit("doi.org/") \o DoiAtoms, 6, 5 + Len(DoiAtoms)) >>

\* line 44: VALID_DOI_PATTERN.match(doi)
IsValidDoi(doi) == re_fullmatch(Pattern(DoiAtoms, 0, 0), doi, TRUE)

\* lines 72-78
extract_dois_from_text(text) ==
    UNION {Range(re_findall(DOI_PATTERNS[k], text, TRUE)) :
              k \in 1..Len(DOI_PATTERNS)}

\* line 93
metadata_fields == <<"references", "citation", "doi", "reference", "Attributes">>

\* line 114: any(field in text for field in metadata_fields)
HasMetadataField(text) ==
    \E k \in 1..Len(metadata_fields) : Contains(metadata_fields[k], text)

\* lines 110-115 and 120-124 for one payload: the DOIs it adds to
\* dataset_dois, or "TypeError" when ''.join(value) meets an item that is
\* no string; a payload that is neither str nor list is passed over
PayloadDois(payload) ==
    CASE payload.type = "numlist" -> [raised |-> TRUE, dois |-> {}]
      [] payload.type = "dict" -> [raised |-> FALSE, dois |-> {}]
      [] OTHER ->
          LET text == join(payload.parts)
          IN [raised |-> FALSE,
              dois |-> IF HasMetadataField(text)
                       THEN extract_dois_from_text(text) ELSE {}]

\* the payloads of an output in the order the code reads them: text, then
\* the values of data
OutputPayloads(output) ==
    (IF "text" \in DOMAIN output THEN {output.text} ELSE {})
    \cup Range(Get(output, "data", EmptyDict))

\* lines 104-124 for one cell: the DOIs of its outputs and whether one of
\* them raised
CellDatasetDois(cell) ==
    IF cell.cell_type # "code" THEN [raised |-> FALSE, dois |-> {}]
    ELSE LET ps == UNION {OutputPayloads(cell.outputs[k]) :
                             k \in 1..Len(cell.outputs)}
         IN [raised |-> \E q \in ps : PayloadDois(q).raised,
             dois |-> UNION {PayloadDois(q).dois : q \in ps}]

\* lines 141-144 for one cell
CellCitedDois(cell) ==
    IF cell.cell_type = "markdown"
    THEN extract_dois_from_text(extract_cell_source(cell)) ELSE {}

DoiCells == {
    Code(<<[output_type |-> "stream",
            text |-> List(<<"Attributes:\n", "  doi: 10.1234/AbC\n">>)]>>),
    Code(<<[output_type |-> "execute_result",
            data |-> ("text/plain" :>
                      Str("references: https://doi.org/10.5555/xyz"))]>>),
    Code(<<[output_type |-> "stream",
            text |-> Str("fetched 10.1234/abc\n")]>>),
    Code(<<[output_type |-> "stream", text |-> Str("citation needed\n")],
           [output_type |-> "display_data",
            data |-> ("application/json" :> [type |-> "dict", parts |-> <<>>])]>>),
    Code(<<[output_type |-> "display_data",
            data |-> ("application/json" :> [type |-> "numlist", parts |-> <<>>])]>>),
    Md(<<"Data: https://doi.org/10.1234/abc">>),
    Md(<<"See (doi:10.5555/xyz).">>),
    Md(<<"Cite 10.5555/XYZ, ", "please.">>),
    Md(<<"No references, see doi.org">>) }

DoiNotebooks ==
    {Missing, Invalid} \cup
    {Notebook(c, EmptyDict) : c \in SeqUpTo(DoiCells, MaxDoiCells)}

\* lines 104-124 and 141-144 for every cell the model draws, computed once
DatasetDoisTable == [c \in DoiCells |-> CellDatasetDois(c)]
CitedDoisTable == [c \in DoiCells |-> CellCitedDois(c)]

(***************************************************************************)
(* sorted(): strings ordered by code point (of the printable ASCII         *)
(* characters that the texts of the model use)                             *)
(***************************************************************************)
ASCII ==
    " !\"#$%&'(" \o ")" \o "*+,-./0123456789:;<=>?@" \o UPPER \o "[\\]^_"
    \o LOWER \o "{|}~"

\* the first position where a and b differ, 0 when one is a prefix of
\* the other
FirstDifference(a, b) ==
    FirstOf({j \in 1..Len(a) : j <= Len(b) /\ Ch(a, j) # Ch(b, j)})

\* a < b, d being the first position where they differ
LessAt(a, b, d) ==
    IF d = 0 THEN Len(a) < Len(b)
    ELSE IndexOf(Ch(a, d), ASCII, 1) < IndexOf(Ch(b, d), ASCII, 1)

StrLess(a, b) == LessAt(a, b, FirstDifference(a, b))

RECURSIVE sorted(_)
sorted(S) ==
    IF S = {} THEN <<>>
    ELSE LET least == CHOOSE x \in S : \A y \in S \ {x} : StrLess(x, y)
         IN <<least>> \o sorted(S \ {least})

(***************************************************************************)
(* doi_checker.py: validate_doi_resolves and check_doi(notebook_path)      *)
(***************************************************************************)
\* what requests.head can give: an HTTP status or a RequestException
Responses == {"200", "302", "404", "503", "RequestException"}

\* a network error counts as a DOI that does not resolve
validate_doi_resolves_NetworkFails(response) ==
    IF response \in {"200", "301", "302"} THEN "True" ELSE "False"

\* lines 60-69
validate_doi_resolves(response) ==
    IF response = "RequestException" THEN "None"
    ELSE IF response \in {"200", "301", "302"} THEN "True"
    ELSE "False"

\* lines 102-127: the valid dataset DOIs of all code cells, or the
\* TypeError that ''.join raises on a list that holds a non-string
DatasetDoisOf(cells) ==
    LET found == {DatasetDoisTable[cells[k]] : k \in 1..Len(cells)}
    IN [raised |-> \E f \in found : f.raised,
        dois |-> {d \in UNION {f.dois : f \in found} : IsValidDoi(d)}]

\* lines 139-147: the valid DOIs of all markdown cells
CitedDoisOf(cells) ==
    {d \in UNION {CitedDoisTable[cells[k]] : k \in 1..Len(cells)} :
        IsValidDoi(d)}

DoiInit ==
    /\ CliIdle /\ DoiIdle /\ MetaIdle
    /\ pc = "doi_start"
    /\ nb \in DoiNotebooks
    /\ result = "none"

\* lines 95-99: a notebook that cannot be read is a "failure"
DoiRead ==
    /\ pc = "doi_start"
    /\ IF IsNotebook(nb)
       THEN pc' = "doi_phase1" /\ UNCHANGED result
       ELSE pc' = "done" /\ result' = "failure"
    /\ UNCHANGED <<cliVars, doiVars, metaVars, nb>>

\* lines 101-131: dataset DOIs of the code-cell outputs; the TypeError of
\* ''.join is not caught
DoiPhase1 ==
    /\ pc = "doi_phase1"
    /\ LET found == DatasetDoisOf(nb.cells)
       IN IF found.raised
          THEN /\ pc' = "raise" /\ result' = "TypeError"
               /\ UNCHANGED dataset_dois
          ELSE /\ dataset_dois' = found.dois
               /\ IF found.dois = {}
                  THEN pc' = "done" /\ result' = "skipped"
                  ELSE pc' = "doi_phase2" /\ UNCHANGED result
    /\ UNCHANGED <<cliVars, metaVars, nb, cited_dois, pending, failed,
                   unresolved_dois, responses>>

\* lines 138-158: DOIs cited in markdown cells
DoiPhase2 ==
    /\ pc = "doi_phase2"
    /\ cited_dois' = CitedDoisOf(nb.cells)
    /\ pending' = sorted(dataset_dois)
    /\ failed' = FALSE /\ unresolved_dois' = <<>>
    /\ pc' = "doi_resolve"
    /\ UNCHANGED <<cliVars, metaVars, nb, result, dataset_dois, responses>>

\* lines 161-171: one turn of the loop over sorted(dataset_dois)
DoiResolve ==
    /\ pc = "doi_resolve" /\ pending # <<>>
    /\ \E response \in Responses :
          /\ responses' = (Head(pending) :> response) @@ responses
          /\ IF validate_doi_resolves(response) = "False"
             THEN /\ unresolved_dois' = Append(unresolved_dois, Head(pending))
                  /\ failed' = TRUE
             ELSE UNCHANGED <<unresolved_dois, failed>>
    /\ pending' = Tail(pending)
    /\ UNCHANGED <<cliVars, metaVars, nb, result, pc, dataset_dois, cited_dois>>

\* lines 175-178
UncitedDois(dataset, cited) ==
    {lower(d) : d \in dataset} \ {lower(d) : d \in cited}

\* lines 173-199: citation check and result
DoiCite ==
    /\ pc = "doi_resolve" /\ pending = <<>>
    /\ LET uncited_dois == UncitedDois(dataset_dois, cited_dois)
           failed2 == failed \/ uncited_dois # {}
       IN /\ failed' = failed2
          /\ result' = IF failed2 THEN "failure" ELSE "success"
    /\ pc' = "done"
    /\ UNCHANGED <<cliVars, metaVars, nb, dataset_dois, cited_dois, pending,
                   unresolved_dois, responses>>

DoiNext == DoiRead \/ DoiPhase1 \/ DoiPhase2 \/ DoiResolve \/ DoiCite

SpecDoi == DoiInit /\ [][DoiNext]_vars

\* the answer for d says that d does not resolve: an HTTP status other
\* than 200, 301, 302 (validate_doi_resolves gives False), no network error
C4_DoesNotResolve(d) ==
    responses[d] \notin {"200", "301", "302", "RequestException"}

C4_Cited(d) == \E c \in cited_dois : lower(c) = lower(d)

C4_WitnessNetworkError ==
    /\ pc = "done" /\ result = "success"
    /\ \E d \in dataset_dois : responses[d] = "RequestException"

\* a payload of a code-cell output holds a metadata field name together
\* with a DOI-shaped token
C5_CoOccursIn(cell) ==
    /\ cell.cell_type = "code"
    /\ \E k \in 1..Len(cell.outputs) :
          \E q \in OutputPayloads(cell.outputs[k]) :
             /\ q.type \in {"str", "list"}
             /\ \E f \in Range(metadata_fields) : Contains(f, join(q.parts))
             /\ re_search(Pattern(DoiAtoms, 0, 0), join(q.parts), TRUE) # <<>>

C5_CoOccursTable == [c \in DoiCells |-> C5_CoOccursIn(c)]

C5_CoOccurs == \E k \in 1..Len(nb.cells) : C5_CoOccursTable[nb.cells[k]]

\* C5: for a readable notebook, if no metadata field name co-occurs with
\* a DOI-shaped token in a code-cell output, check_doi returns "skipped"
\* and sends no request; and "skipped" is returned only in that case.
C5_SkippedIffNoCoOccurrence ==
    (pc \in {"done", "raise"} /\ IsNotebook(nb)) =>
       /\ ~C5_CoOccurs => (result = "skipped" /\ DOMAIN responses = {})
       /\ result = "skipped" => ~C5_CoOccurs

\* what remains of C5 when check_doi returns at all
C5_WhenItReturns ==
    (pc = "done" /\ IsNotebook(nb)) =>
       /\ ~C5_CoOccurs => (result = "skipped" /\ DOMAIN responses = {})
       /\ result = "skipped" => ~C5_CoOccurs

(***************************************************************************)
(* qa_config.py: the config filter                                         *)
(***************************************************************************)
MaxNotebooks == 4

\* the last position of the run of literal characters of pat that
\* starts at j
LiteralEnd(pat, j) ==
    IF \E k \in j..Len(pat) : Ch(pat, k) \in {"*", "?"}
    THEN FirstOf({k \in j..Len(pat) : Ch(pat, k) \in {"*", "?"}}) - 1
    ELSE Len(pat)

RECURSIVE fnmatchFrom(_, _, _, _)
RECURSIVE fnmatchLiteral(_, _, _, _, _)
\* fnmatch.fnmatch on POSIX: "*" matches any run of characters ("/"
\* included), "?" any one character, anything else itself; the whole name
\* must match (no "[" occurs in the patterns drawn here)
fnmatchFrom(name, i, pat, j) ==
    IF j > Len(pat) THEN i > Len(name)
    ELSE IF Ch(pat, j) = "*"
         THEN \E k \in i..(Len(name) + 1) : fnmatchFrom(name, k, pat, j + 1)
    ELSE IF i > Len(name) THEN FALSE
    ELSE IF Ch(pat, j) = "?" THEN fnmatchFrom(name, i + 1, pat, j + 1)
    ELSE fnmatchLiteral(name, i, pat, j, LiteralEnd(pat, j))

\* the characters of pat from j up to e (no wildcard among them) are the
\* next characters of name, and the rest matches
fnmatchLiteral(name, i, pat, j, e) ==
    /\ i + (e - j) <= Len(name)
    /\ SubSeq(name, i, i + (e - j)) = SubSeq(pat, j, e)
    /\ fnmatchFrom(name, i + (e - j) + 1, pat, e + 1)

fnmatch(name, pat) == fnmatchFrom(name, 1, pat, 1)

\* a config as load_config returns it; an absent key reads as its
\* .get default, the empty list or dict
Config(disabled, skip, per) ==
    [top |-> "dict", nulls |-> {},
     disabled_checks |-> disabled, skip_notebooks |-> skip, notebooks |-> per]

\* the empty dict {}
EmptyConfig == Config(<<>>, <<>>, <<>>)

\* a YAML document whose top-level value is not a mapping: "list" for a
\* non-empty sequence, "str" for a scalar, "None" for the empty document
TopLevel(top) == [EmptyConfig EXCEPT !.top = top]

\* a mapping in which the section named key is present with value null
NullSection(cfg, key) == [cfg EXCEPT !.nulls = @ \cup {key}]

\* one entry of the "notebooks" mapping: pattern -> {skip: [...]}; an
\* entry without a "skip" key reads as its .get default, the empty list
Per(pattern, skip) == [pattern |-> pattern, skip |-> skip, settings |-> "dict"]

\* an entry whose value is null in the YAML file: pattern -> None
PerNull(pattern) == [pattern |-> pattern, skip |-> <<>>, settings |-> "None"]

\* an entry whose skip key is null: pattern -> {skip: None}
PerSkipNull(pattern) ==
    [pattern |-> pattern, skip |-> <<>>, settings |-> "skip_None"]

\* the file at config_path: state "absent" (no such file), "no_yaml"
\* (the file exists, PyYAML cannot be imported), "unreadable" (open or
\* read fails), "unparsable" (yaml.safe_load fails) or "valid" (the
\* document parses to content)
ConfigFile(state, content) == [state |-> state, content |-> content]

\* lines 58-61: the try block, as the exception it raises ("None" when it
\* returns) and the value it returns
LoadBody(file) ==
    IF file.state = "unreadable"
    THEN [raised |-> "OSError", config |-> EmptyConfig]
    ELSE IF file.state = "unparsable"
    THEN [raised |-> "YAMLError", config |-> EmptyConfig]
    ELSE [raised |-> "None",
          config |-> IF file.content.top = "None" THEN EmptyConfig
                     ELSE file.content]

\* a load_config without its except clause
load_config_NoHandler(file) ==
    IF file.state = "absent" THEN [raised |-> "None", config |-> EmptyConfig]
    ELSE IF file.state = "no_yaml"
    THEN [raised |-> "None", config |-> EmptyConfig]
    ELSE LoadBody(file)

\* lines 51-64
load_config(file) ==
    IF file.state = "absent" THEN [raised |-> "None", config |-> EmptyConfig]
    ELSE IF file.state = "no_yaml"
    THEN [raised |-> "None", config |-> EmptyConfig]
    ELSE IF LoadBody(file).raised # "None"
    THEN [raised |-> "None", config |-> EmptyConfig]
    ELSE LoadBody(file)

\* lines 78-79: the exception is_check_disabled raises on cfg, "None"
\* when it returns
is_check_disabled_raises(cfg, id) ==
    IF cfg.top # "dict" THEN "AttributeError"
    ELSE IF "disabled_checks" \in cfg.nulls THEN "TypeError"
    ELSE "None"

\* lines 78-79
is_check_disabled(cfg, id) == id \in Range(cfg.disabled_checks)

\* a loop that returns the outcome of its first turn
SkipLoop_FirstOnly(skip_patterns, notebook, k) ==
    IF k > Len(skip_patterns) THEN FALSE
    ELSE fnmatch(notebook, skip_patterns[k])

RECURSIVE SkipLoop(_, _, _)
\* lines 94-97: the loop over skip_patterns from the k-th pattern on
SkipLoop(skip_patterns, notebook, k) ==
    IF k > Len(skip_patterns) THEN FALSE
    ELSE IF fnmatch(notebook, skip_patterns[k]) THEN TRUE
    ELSE SkipLoop(skip_patterns, notebook, k + 1)

\* lines 93-97
is_notebook_skipped(cfg, notebook) == SkipLoop(cfg.skip_notebooks, notebook, 1)

\* lines 93-94: the exception is_notebook_skipped raises on cfg, "None"
\* when it returns
is_notebook_skipped_raises(cfg, notebook) ==
    IF cfg.top # "dict" THEN "AttributeError"
    ELSE IF "skip_notebooks" \in cfg.nulls THEN "TypeError"
    ELSE "None"

RECURSIVE PerLoop_FirstMatch(_, _, _, _)
\* a loop that lets the first pattern that matches decide
PerLoop_FirstMatch(per_notebook, id, notebook, k) ==
    IF k > Len(per_notebook) THEN "False"
    ELSE IF fnmatch(notebook, per_notebook[k].pattern)
         THEN IF per_notebook[k].settings = "None" THEN "AttributeError"
              ELSE IF per_notebook[k].settings = "skip_None" THEN "TypeError"
              ELSE IF id \in Range(per_notebook[k].skip) THEN "True"
              ELSE "False"
    ELSE PerLoop_FirstMatch(per_notebook, id, notebook, k + 1)

RECURSIVE PerLoop(_, _, _, _)
\* lines 115-120: the loop over per_notebook.items() from the k-th item
\* on, as "True", "False", the AttributeError of settings.get on None
\* or the TypeError of "check_id in None"
PerLoop(per_notebook, id, notebook, k) ==
    IF k > Len(per_notebook) THEN "False"
    ELSE IF fnmatch(notebook, per_notebook[k].pattern)
         THEN IF per_notebook[k].settings = "None" THEN "AttributeError"
              ELSE IF per_notebook[k].settings = "skip_None" THEN "TypeError"
              ELSE IF id \in Range(per_notebook[k].skip) THEN "True"
              ELSE PerLoop(per_notebook, id, notebook, k + 1)
    ELSE PerLoop(per_notebook, id, notebook, k + 1)

\* lines 114-120
is_check_skipped_for_notebook(cfg, id, notebook) ==
    PerLoop(cfg.notebooks, id, notebook, 1) = "True"

\* lines 114-120: the exception is_check_skipped_for_notebook raises on
\* cfg, "None" when it returns
is_check_skipped_for_notebook_raises(cfg, id, notebook) ==
    IF cfg.top # "dict" THEN "AttributeError"
    ELSE IF "notebooks" \in cfg.nulls THEN "AttributeError"
    ELSE IF PerLoop(cfg.notebooks, id, notebook, 1) \in {"True", "False"}
    THEN "None"
    ELSE PerLoop(cfg.notebooks, id, notebook, 1)

RECURSIVE FilterLoop(_, _, _, _, _)
\* lines 145-156: the loop of filter_notebooks from the k-th path on
FilterLoop(cfg, id, paths, k, kept) ==
    IF k > Len(paths) THEN kept
    ELSE IF is_notebook_skipped(cfg, paths[k])
         THEN FilterLoop(cfg, id, paths, k + 1, kept)
    ELSE IF is_check_skipped_for_notebook(cfg, id, paths[k])
         THEN FilterLoop(cfg, id, paths, k + 1, kept)
    ELSE FilterLoop(cfg, id, paths, k + 1, Append(kept, paths[k]))

RECURSIVE FilterLoop_Unique(_, _, _, _, _)
\* a filter that drops a path it has already kept
FilterLoop_Unique(cfg, id, paths, k, kept) ==
    IF k > Len(paths) THEN kept
    ELSE IF is_notebook_skipped(cfg, paths[k])
         THEN FilterLoop_Unique(cfg, id, paths, k + 1, kept)
    ELSE IF is_check_skipped_for_notebook(cfg, id, paths[k])
         THEN FilterLoop_Unique(cfg, id, paths, k + 1, kept)
    ELSE IF paths[k] \in Range(kept)
         THEN FilterLoop_Unique(cfg, id, paths, k + 1, kept)
    ELSE FilterLoop_Unique(cfg, id, paths, k + 1, Append(kept, paths[k]))

filter_notebooks_Unique(cfg, id, paths) ==
    FilterLoop_Unique(cfg, id, paths, 1, <<>>)

\* lines 144-156
filter_notebooks(cfg, id, paths) == FilterLoop(cfg, id, paths, 1, <<>>)

RECURSIVE FilterLoopRaises(_, _, _, _)
\* lines 145-156: the exception the loop of filter_notebooks raises from
\* the k-th path on, "None" when it runs to its end
FilterLoopRaises(cfg, id, paths, k) ==
    IF k > Len(paths) THEN "None"
    ELSE IF is_notebook_skipped_raises(cfg, paths[k]) # "None"
         THEN is_notebook_skipped_raises(cfg, paths[k])
    ELSE IF is_notebook_skipped(cfg, paths[k])
         THEN FilterLoopRaises(cfg, id, paths, k + 1)
    ELSE IF is_check_skipped_for_notebook_raises(cfg, id, paths[k]) # "None"
         THEN is_check_skipped_for_notebook_raises(cfg, id, paths[k])
    ELSE FilterLoopRaises(cfg, id, paths, k + 1)

\* lines 144-156
filter_notebooks_raises(cfg, id, paths) == FilterLoopRaises(cfg, id, paths, 1)

\* lines 178-182
get_filtered_notebooks_for_check(cfg, id, paths) ==
    IF is_check_disabled(cfg, id) THEN [skip |-> TRUE, filtered |-> <<>>]
    ELSE [skip |-> FALSE, filtered |-> filter_notebooks(cfg, id, paths)]

Paths == {"", "a.ipynb", "draft/b.ipynb", "draft/x/c.ipynb"}

SkipLists == {<<>>, <<"draft/*">>, <<"a.ipynb", "draft/?.ipynb">>, <<"*b*">>}

PerNotebook == {
    <<>>,
    <<Per("a.ipynb", <<"doi">>)>>,
    <<Per("*.ipynb", <<"figures", "doi">>)>>,
    <<Per("draft/*", <<>>), Per("*", <<"figures">>)>> }

Configs ==
    {Config(d, s, p) : d \in {<<>>, <<"doi">>}, s \in SkipLists,
                       p \in PerNotebook}

CheckIds == {"doi", "figures"}

\* values of the variables the config filter does not use
MainIdle ==
    /\ checker = "none" /\ config_file = <<>> /\ idx = 0 /\ fs = <<>> /\ notebook_results = <<>>
    /\ overall_result = 0 /\ exit_code = -1 /\ log = <<>>
    /\ results_file = NoResultsFile /\ nb = Missing /\ result = "none"
    /\ command_name = "none" /\ disk = <<>>
    /\ cwd = <<>> /\ threshold = coverage_threshold

FilterInit ==
    /\ MainIdle /\ DoiIdle /\ MetaIdle
    /\ pc = "filter_start"
    /\ config \in Configs
    /\ check_id \in CheckIds
    /\ argv \in SeqUpTo(Paths, MaxNotebooks)
    /\ notebooks = <<>>

\* filtered = filter_notebooks(config, check_id, notebooks), unless the
\* check is disabled
FilterCall ==
    /\ pc = "filter_start"
    /\ LET r == get_filtered_notebooks_for_check(config, check_id, argv)
       IN /\ notebooks' = r.filtered
          /\ pc' = IF r.skip THEN "disabled" ELSE "filtered"
    /\ UNCHANGED <<checker, config_file, config, check_id, argv, idx, fs,
                   command_name, disk, cwd, threshold, notebook_results,
                   overall_result, exit_code, log, results_file, nb, result,
                   doiVars, metaVars>>

FilterNext == FilterCall

SpecFilter == FilterInit /\ [][FilterNext]_vars

\* path p is kept by the two predicates of the claim
C10_Kept(p) ==
    /\ ~is_notebook_skipped(config, p)
    /\ ~is_check_skipped_for_notebook(config, check_id, p)

\* how often p occurs in the list s
C10_Count(s, p) == Cardinality({i \in 1..Len(s) : s[i] = p})

\* C10: filter_notebooks returns exactly the subsequence of the input
\* made of the paths that are neither skipped entirely nor skipped for
\* this check: there is a strictly increasing map from the positions of
\* the output onto the kept positions of the input, so the order is kept,
\* a kept path occurring k times in the input occurs k times in the
\* output, and nothing else appears.
C10_FilterIsSubsequence ==
    pc = "filtered" =>
       LET keptPos == {i \in 1..Len(argv) : C10_Kept(argv[i])}
       IN /\ Len(notebooks) = Cardinality(keptPos)
          /\ \E f \in [1..Len(notebooks) -> keptPos] :
                /\ \A a, b \in 1..Len(notebooks) : a < b => f[a] < f[b]
                /\ \A a \in 1..Len(notebooks) : notebooks[a] = argv[f[a]]
          /\ \A p \in Paths :
                C10_Count(notebooks, p) =
                   IF C10_Kept(p) THEN C10_Count(argv, p) ELSE 0

\* a kept path given twice, around a path that is filtered out, comes
\* out twice, before another kept path
C10_Witness ==
    /\ pc = "filtered"
    /\ \E i, j, k \in 1..Len(argv) :
          /\ i < j /\ j < k /\ argv[i] = argv[k]
          /\ C10_Kept(argv[i]) /\ ~C10_Kept(argv[j])
          /\ C10_Count(notebooks, argv[i]) = 2
    /\ \E i, j \in 1..Len(notebooks) : i < j /\ notebooks[i] # notebooks[j]

(***************************************************************************)
(* The check functions as main() calls them, and test_checker.check_tests  *)
(***************************************************************************)
\* accessibility_checker.py lines 30-74; utils.read_notebook ends the
\* process on a file it cannot read
check_accessibility(file) ==
    IF ~IsNotebook(file) THEN "SystemExit"
    ELSE IF AccIssues(file.cells, 1) = 0 THEN "success" ELSE "failure"

\* metadata_checker.py lines 38-98
check_metadata(file, readme_file) ==
    IF ~IsNotebook(file) THEN "SystemExit"
    ELSE LET in_fields == ScanMetadataFields(file.metadata, 1)
             in_markdown == ScanMarkdownCells(file.cells, 1)
             in_readme == ScanReadme(readme_file)
             found == IF in_fields[1] # "None" THEN in_fields
                      ELSE IF in_markdown[1] # "None" THEN in_markdown
                      ELSE in_readme
         IN IF found[1] # "None" THEN "success" ELSE "failure"

\* doi_checker.py lines 95-199, with the answers the HEAD requests get
check_doi(file, answers) ==
    IF ~IsNotebook(file) THEN "failure"
    ELSE LET found == DatasetDoisOf(file.cells)
         IN IF found.raised THEN "TypeError"
            ELSE IF found.dois = {} THEN "skipped"
            ELSE IF \/ \E d \in found.dois :
                          validate_doi_resolves(answers[d]) = "False"
                    \/ UncitedDois(found.dois, CitedDoisOf(file.cells)) # {}
                 THEN "failure" ELSE "success"

\* the DOIs check_doi sends a request for
ResolvedDois(file) ==
    IF ~IsNotebook(file) THEN {}
    ELSE LET found == DatasetDoisOf(file.cells)
         IN IF found.raised THEN {} ELSE found.dois

\* decimal places kept of a float
Scale == 10000

AllDigits(str) == \A j \in 1..Len(str) : InStr(Ch(str, j), DIGITS)

\* int(str) of a string of digits, acc being the value of those read
RECURSIVE ToInt(_, _)
ToInt(str, acc) ==
    IF str = "" THEN acc
    ELSE ToInt(Tail(str), acc * 10 + IndexOf(Head(str), DIGITS, 1) - 1)

\* a decimal literal whose point is at position dot (0: no point), in
\* units of 1/Scale
DecimalValue(str, dot) ==
    IF dot = 0
    THEN [ok |-> str # "" /\ AllDigits(str), val |-> ToInt(str, 0) * Scale]
    ELSE [ok |-> /\ Len(str) > 1
                 /\ AllDigits(SubSeq(str, 1, dot - 1))
                 /\ AllDigits(SubSeq(str, dot + 1, Len(str))),
          val |-> ToInt(SubSeq(str, 1, dot - 1), 0) * Scale
                  + ToInt(SubSeq(SubSeq(str, dot + 1, Len(str)) \o "0000",
                                 1, 4), 0)]

\* line 66: float(...) of an unsigned decimal literal; ok is FALSE where
\* float raises ValueError
float(str) == DecimalValue(str, IndexOf(".", str, 1))

\* a comparison that also fails a coverage equal to the threshold
BelowThreshold_Inclusive(coverage_pct, coverage_threshold_) ==
    coverage_pct <= coverage_threshold_ * Scale

\* line 70: coverage_pct < coverage_threshold, coverage_pct in units of
\* 1/Scale percent
BelowThreshold(coverage_pct, coverage_threshold_) ==
    coverage_pct < coverage_threshold_ * Scale

\* lines 66-75, rate being float(root.attrib.get('line-rate', 0))
CompareCoverage(rate, coverage_threshold_) ==
    IF ~rate.ok THEN "failure"
    ELSE IF BelowThreshold(rate.val * 100, coverage_threshold_) THEN "failure"
    ELSE "success"

\* what check_tests finds: whether a test file matches the patterns, the
\* outcome of subprocess.run, coverage.xml ("absent", "malformed" for a
\* file ET.parse rejects, "no_line_rate" for a root element without the
\* attribute, "valid") and the text of its line-rate attribute
TestEnv(test_files, run, coverage_xml, line_rate) ==
    [test_files |-> test_files, run |-> run, coverage_xml |-> coverage_xml,
     line_rate |-> line_rate]

LineRates == {"0", "0.5", "0.79", "0.7999", "0.8", "0.80", "0.8001", "1",
              "1.0", "abc", "", "."}

TestEnvs ==
    {TestEnv(t, r, x, "0") :
        t \in BOOLEAN,
        r \in {"completed", "TimeoutExpired", "FileNotFoundError", "OSError"},
        x \in {"absent", "malformed", "no_line_rate"}}
    \cup {TestEnv(t, r, "valid", l) :
             t \in BOOLEAN, r \in {"completed", "TimeoutExpired"},
             l \in LineRates}

\* test_checker.py lines 32-88
check_tests(env, coverage_threshold_) ==
    IF ~env.test_files THEN "failure"
    ELSE IF env.run # "completed" THEN "failure"
    ELSE IF env.coverage_xml = "absent" THEN "failure"
    ELSE IF env.coverage_xml = "malformed" THEN "failure"
    ELSE IF env.coverage_xml = "no_line_rate"
         THEN CompareCoverage([ok |-> TRUE, val |-> 0], coverage_threshold_)
    ELSE CompareCoverage(float(env.line_rate), coverage_threshold_)

(***************************************************************************)
(* main() of the five checkers                                             *)
(***************************************************************************)
MaxArgs == 3

Checkers == {"accessibility", "doi", "figure", "metadata", "test"}

\* mains that take --notebooks <json array> and --output-dir
JsonCheckers == {"accessibility", "metadata", "test"}

\* mains that take positional paths and --config
ConfigCheckers == {"doi", "figure"}

\* the check identifier each main hands to qa_config
CheckIdOf(c) ==
    IF c = "doi" THEN "doi" ELSE IF c = "figure" THEN "figures" ELSE "none"

\* the command name each main hands to write_results
CommandOf(c) == c \o "_checker"

CliPaths == {"", "a.ipynb", "draft/b.ipynb"}

CliConfigs == {
    Config(<<>>, <<>>, <<>>),
    Config(<<>>, <<"draft/*">>, <<Per("a.ipynb", <<"doi">>)>>),
    Config(<<"figures", "doi">>, <<"draft/*">>, <<>>) }

\* the files a run of checker c may find at a path
CliFiles(c) ==
    {Missing, Invalid} \cup
    CASE c = "accessibility" ->
           {Notebook(<<Md(<<"![plot of x](a.png)">>)>>, EmptyDict),
            Notebook(<<MdHtml(<<"<p><img src=\"a.png\"></p>">>,
                              <<[src |-> "a.png"]>>)>>, EmptyDict)}
      [] c = "metadata" ->
           {Notebook(<<Md(<<"Last updated: ", "2025-01-15">>)>>, EmptyDict),
            Notebook(<<Md(<<"# Intro\n">>)>>, EmptyDict)}
      [] c = "figure" ->
           {Notebook(<<Md(<<"Source: NASA">>),
                       Code(<<[output_type |-> "display_data",
                               data |-> ("image/svg+xml" :> Str("<svg/>"))]>>)>>,
                     EmptyDict),
            Notebook(<<Code(<<[output_type |-> "display_data",
                               data |-> ("image/png" :> Str("iVBOR")) @@
                                        ("text/plain" :> Str("<Figure>"))],
                              [output_type |-> "execute_result",
                               data |-> ("image/jpeg" :> Str("/9j/4"))]>>)>>,
                     EmptyDict)}
      [] c = "doi" ->
           {Notebook(<<Code(<<[output_type |-> "stream",
                               text |-> List(<<"Attributes:\n",
                                               "  doi: 10.1234/AbC\n">>)]>>),
                       Md(<<"Data: https://doi.org/10.1234/abc">>)>>,
                     EmptyDict),
            Notebook(<<Code(<<[output_type |-> "stream",
                               text |-> Str("fetched 10.1234/abc\n")]>>)>>,
                     EmptyDict),
            Notebook(<<Code(<<[output_type |-> "display_data",
                               data |-> ("application/json" :>
                                  [type |-> "numlist", parts |-> <<>>])]>>)>>,
                     EmptyDict)}
      [] c = "test" -> {Notebook(<<>>, EmptyDict)}

\* open(path): the empty path names no file
FileAt(files, path) == IF path = "" THEN Missing ELSE files[path]

\* what the check function of checker c can give for one path: a result,
\* "SystemExit" (sys.exit(1) of utils.read_notebook) or "TypeError"; no
\* README.md lies next to the notebooks of the run
CheckOutcomes(c, file) ==
    CASE c = "accessibility" -> {check_accessibility(file)}
      [] c = "metadata" -> {check_metadata(file, "missing")}
      [] c = "figure" -> {check_figures(file)}
      [] c = "doi" ->
           {check_doi(file, a) : a \in [ResolvedDois(file) -> Responses]}
      [] c = "test" ->
            {check_tests(env, coverage_threshold) : env \in TestEnvs}

\* if result == "failure": overall_result = 1, with a slip that clears
\* the flag on any other result
UpdateOverallResult_LastWins(overall, r) == IF r = "failure" THEN 1 ELSE 0

\* if result == "failure": overall_result = 1
UpdateOverallResult(overall, r) == IF r = "failure" THEN 1 ELSE overall

CliInit ==
    /\ DoiIdle /\ MetaIdle
    /\ pc = "main_start"
    /\ checker \in Checkers
    /\ check_id = CheckIdOf(checker)
    /\ config_file \in {ConfigFile("valid", c) : c \in CliConfigs}
    /\ config = EmptyConfig
    /\ fs \in [CliPaths \ {""} -> CliFiles(checker)]
    /\ argv = <<>> /\ notebooks = <<>> /\ idx = 0
    /\ notebook_results = EmptyDict /\ overall_result = 0
    /\ exit_code = -1 /\ log = <<>> /\ results_file = NoResultsFile
    /\ command_name = "none" /\ disk = <<>>
    /\ cwd = <<>> /\ threshold = coverage_threshold
    /\ nb = Missing /\ result = "none"

cliEnv == <<checker, check_id, config_file, fs, nb, command_name, disk,
            cwd, threshold, doiVars, metaVars>>

\* accessibility, metadata and test main() up to the loop: json.loads of
\* --notebooks; a JSONDecodeError ends the process with status 1
MainParseJson ==
    /\ pc = "main_start" /\ checker \in JsonCheckers
    /\ \/ /\ pc' = "exit_json_error" /\ exit_code' = 1
          /\ UNCHANGED <<argv, notebooks, idx>>
       \/ \E paths \in SeqUpTo(CliPaths, MaxArgs) :
             /\ argv' = paths /\ notebooks' = paths /\ idx' = 1
             /\ pc' = "loop" /\ UNCHANGED exit_code
    /\ UNCHANGED <<cliEnv, config, notebook_results, overall_result, log,
                   results_file, result>>

\* doi and figure main() once filter_notebooks returned filtered
MainAfterFilter(filtered) ==
    /\ notebooks' = filtered
    /\ IF filtered = <<>>
       THEN /\ pc' = "exit_all_skipped" /\ exit_code' = 0
            /\ UNCHANGED idx
       ELSE /\ pc' = "loop" /\ idx' = 1
            /\ UNCHANGED exit_code

\* doi and figure main() after load_config returned loaded:
\* is_check_disabled, filter_notebooks and the two early exits with
\* status 0; an exception that leaves main ends the process with status 1
MainAfterLoad(loaded, paths) ==
    /\ config' = loaded.config
    /\ IF loaded.raised # "None"
       THEN /\ pc' = "exit_config_error" /\ exit_code' = 1
            /\ UNCHANGED <<notebooks, idx>>
       ELSE IF is_check_disabled_raises(loaded.config, check_id) # "None"
       THEN /\ pc' = "exit_config_error" /\ exit_code' = 1
            /\ UNCHANGED <<notebooks, idx>>
       ELSE IF is_check_disabled(loaded.config, check_id)
       THEN /\ pc' = "exit_disabled" /\ exit_code' = 0
            /\ UNCHANGED <<notebooks, idx>>
       ELSE IF filter_notebooks_raises(loaded.config, check_id, paths) # "None"
       THEN /\ pc' = "exit_config_error" /\ exit_code' = 1
            /\ UNCHANGED <<notebooks, idx>>
       ELSE MainAfterFilter(filter_notebooks(loaded.config, check_id, paths))

\* doi and figure main() up to the loop: parse_args and load_config,
\* then the rest
MainLoadConfig ==
    /\ pc = "main_start" /\ checker \in ConfigCheckers
    /\ \E paths \in SeqUpTo(CliPaths, MaxArgs) :
          /\ argv' = paths
          /\ MainAfterLoad(load_config(config_file), paths)
    /\ UNCHANGED <<cliEnv, notebook_results, overall_result, log,
                   results_file, result>>

\* one turn of "for notebook in notebooks"; an exception or SystemExit
\* that leaves the check function ends the process with status 1
MainLoop ==
    /\ pc = "loop" /\ idx <= Len(notebooks)
    /\ LET notebook == notebooks[idx]
       IN IF checker \in JsonCheckers /\ notebook = ""
          THEN /\ idx' = idx + 1
               /\ UNCHANGED <<pc, exit_code, notebook_results,
                              overall_result, log, result>>
          ELSE \E r \in CheckOutcomes(checker, FileAt(fs, notebook)) :
                  IF r \in {"SystemExit", "TypeError"}
                  THEN /\ pc' = "exit_abort" /\ exit_code' = 1
                       /\ UNCHANGED <<idx, notebook_results, overall_result,
                                      log, result>>
                  ELSE /\ result' = r
                       /\ log' = Append(log, <<notebook, r>>)
                       /\ notebook_results' =
                             IF checker \in JsonCheckers
                             THEN (notebook :> r) @@ notebook_results
                             ELSE notebook_results
                       /\ overall_result' =
                             UpdateOverallResult(overall_result, r)
                       /\ idx' = idx + 1
                       /\ UNCHANGED <<pc, exit_code>>
    /\ UNCHANGED <<cliEnv, config, argv, notebooks, results_file>>

\* after the loop: write_results (accessibility, metadata, test) and
\* sys.exit(overall_result)
MainExit ==
    /\ pc = "loop" /\ idx > Len(notebooks)
    /\ results_file' =
          IF checker \in JsonCheckers
          THEN [written |-> TRUE, command |-> CommandOf(checker),
                results |-> notebook_results]
          ELSE results_file
    /\ exit_code' = overall_result
    /\ pc' = "exit_done"
    /\ UNCHANGED <<cliEnv, config, argv, notebooks, idx, notebook_results,
                   overall_result, log, result>>

CliNext == MainParseJson \/ MainLoadConfig \/ MainLoop \/ MainExit

SpecCli == CliInit /\ [][CliNext]_vars

\* the process ended after the loop over the notebook list, or because
\* the configuration left nothing to check
C1_ListProcessed == pc \in {"exit_done", "exit_disabled", "exit_all_skipped"}

\* C1: in every checker CLI, once the notebook list has been processed,
\* the exit code is 1 if some processed notebook's result is "failure"
\* and 0 otherwise (all results are "success" or "skipped", or there is
\* none).
C1_ExitCodeIsAnyFailure ==
    C1_ListProcessed =>
       /\ \A n \in 1..Len(log) : log[n][2] \in {"success", "failure", "skipped"}
       /\ exit_code = IF \E n \in 1..Len(log) : log[n][2] = "failure"
                      THEN 1 ELSE 0

\* a run whose first notebook fails and whose last one does not ends
\* with exit code 1
C1_Witness ==
    /\ pc = "exit_done" /\ exit_code = 1
    /\ Len(log) >= 2
    /\ log[1][2] = "failure" /\ log[Len(log)][2] # "failure"

\* a run of notebooks that pass or are skipped ends with exit code 0
C1_WitnessSkipped ==
    /\ pc = "exit_done" /\ exit_code = 0
    /\ \E n \in 1..Len(log) : log[n][2] = "skipped"

\* the loop checks the j-th path of the list (the mains that read a JSON
\* array pass over an empty path)
C2_Candidate(j) == ~(checker \in JsonCheckers /\ notebooks[j] = "")

\* the j-th path has been checked: the log holds one result for each
\* candidate up to it
C2_Checked(j) ==
    Cardinality({n \in 1..j : C2_Candidate(n)}) <= Len(log)

\* C2: a notebook that is missing or not valid JSON never aborts the
\* run: when the process has ended, every later notebook of the list has
\* been checked and has its own result, in every checker.
C2_LaterNotebooksChecked ==
    exit_code # -1 =>
       \A i, j \in 1..Len(notebooks) :
          (/\ i < j /\ C2_Candidate(i) /\ C2_Candidate(j)
           /\ ~IsNotebook(FileAt(fs, notebooks[i])))
             => C2_Checked(j)

\* C3: a path that glob-matches an entry of skip_notebooks is in no
\* checker's candidate list, and no checker computes a result for it.
C3_SkippedNeverChecked ==
    /\ pc = "loop" =>
          \A j \in 1..Len(notebooks) :
             ~is_notebook_skipped(config_file.content, notebooks[j])
    /\ \A n \in 1..Len(log) :
          ~is_notebook_skipped(config_file.content, log[n][1])

\* what holds of C3: the two mains that load the configuration
C3_InDoiAndFigure ==
    checker \in ConfigCheckers =>
       /\ pc = "loop" =>
             \A j \in 1..Len(notebooks) :
                ~is_notebook_skipped(config_file.content, notebooks[j])
       /\ \A n \in 1..Len(log) :
             ~is_notebook_skipped(config_file.content, log[n][1])

\* C11: is_check_skipped_for_notebook is true iff some pattern of the
\* per-notebook section glob-matches the path and has check_id in its
\* skip list; is_notebook_skipped is true iff the path glob-matches some
\* entry of skip_notebooks; is_check_disabled is true iff check_id is a
\* member of disabled_checks.
C11_PredicatesAreExistentials ==
    pc \in {"filtered", "disabled"} =>
       /\ is_check_disabled(config, check_id) <=>
             \E k \in 1..Len(config.disabled_checks) :
                config.disabled_checks[k] = check_id
       /\ \A p \in Paths :
             /\ is_notebook_skipped(config, p) <=>
                   \E k \in 1..Len(config.skip_notebooks) :
                      fnmatch(p, config.skip_notebooks[k])
             /\ is_check_skipped_for_notebook(config, check_id, p) <=>
                   \E k \in 1..Len(config.notebooks) :
                      /\ fnmatch(p, config.notebooks[k].pattern)
                      /\ \E j \in 1..Len(config.notebooks[k].skip) :
                            config.notebooks[k].skip[j] = check_id

\* a path of the list is skipped by an entry of skip_notebooks that is
\* not the first, and another by a per-notebook pattern
C11_Witness ==
    /\ pc = "filtered"
    /\ \E i \in 1..Len(argv) :
          /\ is_notebook_skipped(config, argv[i])
          /\ ~fnmatch(argv[i], config.skip_notebooks[1])
    /\ \E i \in 1..Len(argv) :
          /\ ~is_notebook_skipped(config, argv[i])
          /\ is_check_skipped_for_notebook(config, check_id, argv[i])

\* the positions of the per-notebook patterns that match path p
C15_Matching(p) ==
    {k \in 1..Len(config.notebooks) : fnmatch(p, config.notebooks[k].pattern)}

\* the first of a non-empty set of positions
C15_First(S) == CHOOSE k \in S : \A j \in S : k <= j

\* the sequence s in reverse order
C15_Reverse(s) == [k \in 1..Len(s) |-> s[Len(s) + 1 - k]]

\* C15 as stated: when a path matches several per-notebook patterns,
\* the first pattern that matches, in config order, decides
\* is_check_skipped_for_notebook.
C15_FirstMatchDecides ==
    pc = "filtered" =>
       \A p \in Paths :
          C15_Matching(p) # {} =>
             (is_check_skipped_for_notebook(config, check_id, p) <=>
                check_id \in
                   Range(config.notebooks[C15_First(C15_Matching(p))].skip))

\* C15 amended: every matching pattern counts; the outcome is true iff
\* check_id is in the skip list of at least one pattern that matches,
\* first or not, and the order of the patterns does not change it.
C15_AnyMatchDecides ==
    pc = "filtered" =>
       \A p \in Paths :
          /\ is_check_skipped_for_notebook(config, check_id, p) =
                (check_id \in UNION {Range(config.notebooks[k].skip) :
                                       k \in C15_Matching(p)})
          /\ is_check_skipped_for_notebook(config, check_id, p) =
                is_check_skipped_for_notebook(
                   [config EXCEPT !.notebooks = C15_Reverse(@)], check_id, p)

\* a path of the list matches two patterns; the first does not name the
\* check, the second does, and the path is filtered out
C15_Witness ==
    /\ pc = "filtered"
    /\ \E i \in 1..Len(argv) :
          /\ Cardinality(C15_Matching(argv[i])) >= 2
          /\ check_id \notin
                Range(config.notebooks[C15_First(C15_Matching(argv[i]))].skip)
          /\ is_check_skipped_for_notebook(config, check_id, argv[i])
          /\ ~is_notebook_skipped(config, argv[i])
          /\ argv[i] \notin Range(notebooks)

(***************************************************************************)
(* doi_checker.py and figure_checker.py main() over the states of the      *)
(* config file                                                             *)
(***************************************************************************)

\* a config file that turns both checks off and skips draft/
Disabling == Config(<<"figures", "doi">>, <<"draft/*">>, <<>>)

\* documents that parse, with a shape other than the documented one
OddConfigs == {
    TopLevel("None"), TopLevel("list"), TopLevel("str"),
    NullSection(EmptyConfig, "disabled_checks"),
    NullSection(EmptyConfig, "skip_notebooks"),
    NullSection(EmptyConfig, "notebooks"),
    Config(<<>>, <<>>, <<Per("a.ipynb", <<>>)>>),
    Config(<<>>, <<"draft/*">>, <<PerNull("*.ipynb")>>),
    Config(<<>>, <<>>, <<Per("a.ipynb", <<"doi">>), PerSkipNull("draft/*")>>) }

ConfigFiles ==
    {ConfigFile("absent", EmptyConfig), ConfigFile("unparsable", EmptyConfig)}
    \cup {ConfigFile(st, Disabling) : st \in {"no_yaml", "unreadable"}}
    \cup {ConfigFile("valid", c) : c \in CliConfigs \cup OddConfigs}

ConfigInit ==
    /\ DoiIdle /\ MetaIdle
    /\ pc = "main_start"
    /\ checker \in ConfigCheckers
    /\ check_id = CheckIdOf(checker)
    /\ config_file \in ConfigFiles
    /\ config = EmptyConfig
    /\ fs = [p \in CliPaths \ {""} |-> Missing]
    /\ argv = <<>> /\ notebooks = <<>> /\ idx = 0
    /\ notebook_results = EmptyDict /\ overall_result = 0
    /\ exit_code = -1 /\ log = <<>> /\ results_file = NoResultsFile
    /\ command_name = "none" /\ disk = <<>>
    /\ cwd = <<>> /\ threshold = coverage_threshold
    /\ nb = Missing /\ result = "none"

ConfigNext == MainLoadConfig

SpecConfig == ConfigInit /\ [][ConfigNext]_vars

\* C12: load_config never raises; when the config file is absent, the
\* YAML library is unavailable, or the file cannot be read or parsed, it
\* returns the empty config, and the run goes on as with no config:
\* nothing is disabled and no notebook is skipped.
C12_BadFileIsNoConfig ==
    (pc # "main_start" /\ config_file.state # "valid") =>
       /\ config = EmptyConfig
       /\ pc \in {"loop", "exit_all_skipped"}
       /\ pc = "exit_all_skipped" <=> argv = <<>>
       /\ notebooks = argv

\* the file exists and would turn the check off and skip a path of the
\* list, but cannot be read: the run reaches its loop with every path
C12_Witness ==
    /\ pc = "loop"
    /\ config_file.state = "unreadable"
    /\ is_check_disabled(config_file.content, check_id)
    /\ \E i \in 1..Len(notebooks) :
          is_notebook_skipped(config_file.content, notebooks[i])

\* C17: whatever a syntactically valid YAML file holds, the config
\* predicates and filter_notebooks return without raising, so the doi
\* and figure checkers never end on an exception of the config filter.
C17_ConfigNeverCrashes ==
    config_file.state = "valid" => pc # "exit_config_error"

\* the positions of the log that hold a check of path p
C16_ChecksOf(p) == {n \in 1..Len(log) : log[n][1] = p}

\* C16: whenever the accessibility, metadata or test checker ends after
\* a well-formed --notebooks array, the results file has been written,
\* it maps each distinct non-empty path of the array to that notebook's
\* result and nothing else, and the exit code is 1 iff some entry of the
\* file is "failure".
C16_ResultsFileComplete ==
    (checker \in JsonCheckers /\ pc \in {"exit_done", "exit_abort"}) =>
       /\ results_file.written
       /\ DOMAIN results_file.results = Range(argv) \ {""}
       /\ \A p \in DOMAIN results_file.results :
             \E n \in C16_ChecksOf(p) :
                /\ \A k \in C16_ChecksOf(p) : k <= n
                /\ results_file.results[p] = log[n][2]
       /\ exit_code = 1 <=>
             \E p \in DOMAIN results_file.results :
                results_file.results[p] = "failure"

(***************************************************************************)
(* utils.py: write_results, with json.dump as the text it writes and       *)
(* json.loads as a parser of that text                                     *)
(***************************************************************************)

MaxWrites == 2

\* JSON values: a string, or an object as the sequence of its members
\* <<key, value>> in the order of the text
JStr(str) == [type |-> "str", str |-> str, members |-> <<>>]
JObj(members) == [type |-> "obj", str |-> "", members |-> members]

\* json.dumps of a str: quotes and backslashes are escaped
RECURSIVE Escape(_)
RECURSIVE EscapeAt(_, _)
Escape(str) ==
    EscapeAt(str, FirstOf({j \in 1..Len(str) : Ch(str, j) \in {"\"", "\\"}}))

\* p is the position of the first character of str to escape, 0 if none
EscapeAt(str, p) ==
    IF p = 0 THEN str
    ELSE SubSeq(str, 1, p - 1) \o "\\" \o Ch(str, p)
         \o Escape(SubSeq(str, p + 1, Len(str)))

Quote(str) == "\"" \o Escape(str) \o "\""

\* the members of a non-empty dict of strings at indent level 2, one per
\* line, from the k-th on
RECURSIVE DumpMembers(_, _)
DumpMembers(items, k) ==
    "    " \o Quote(items[k][1]) \o ": " \o Quote(items[k][2]) \o
    (IF k = Len(items) THEN "\n" ELSE ",\n" \o DumpMembers(items, k + 1))

\* json.dump(results_data, f, indent=2), lines 58-64; a dict is the
\* sequence of its items in insertion order
json_dump(command, items) ==
    "{\n  \"command\": " \o Quote(command) \o ",\n  \"results\": " \o
    (IF items = <<>> THEN "{}" ELSE "{\n" \o DumpMembers(items, 1) \o "  }")
    \o "\n}"

\* json.loads: the character at position i, "" past the end
At(text, i) == IF i <= Len(text) THEN Ch(text, i) ELSE ""

\* the first position from i on that holds no whitespace
SkipWs(text, i) ==
    FirstOf({j \in i..(Len(text) + 1) :
                At(text, j) \notin {" ", "\n", "\t", "\r"}})

\* the outcome of a parsing step: ok, the value read and the position
\* after it
Failed == [ok |-> FALSE, val |-> JStr(""), pos |-> 0]
Parsed(val, pos) == [ok |-> TRUE, val |-> val, pos |-> pos]

\* the inside of a string literal from position i on, acc read so far
RECURSIVE ScanString(_, _, _)
RECURSIVE ScanStop(_, _, _, _)
ScanString(text, i, acc) ==
    ScanStop(text, i, acc,
             FirstOf({j \in i..Len(text) :
                         Ch(text, j) \in {"\"", "\\", "\n"}}))

\* stop is the first position from i on that holds a quote, a backslash
\* or a line end, 0 if there is none; the characters before it are taken
\* as they are
ScanStop(text, i, acc, stop) ==
    IF stop = 0 THEN Failed
    ELSE IF Ch(text, stop) = "\""
         THEN Parsed(JStr(acc \o SubSeq(text, i, stop - 1)), stop + 1)
    ELSE IF Ch(text, stop) = "\\" /\ At(text, stop + 1) \in {"\"", "\\"}
         THEN ScanString(text, stop + 2,
                         acc \o SubSeq(text, i, stop - 1)
                             \o Ch(text, stop + 1))
    ELSE Failed

ParseString(text, i) ==
    IF At(text, i) = "\"" THEN ScanString(text, i + 1, "") ELSE Failed

\* dict[key] = val: a repeated key keeps its place and takes the new value
PutMember(members, key, val) ==
    IF \E k \in 1..Len(members) : members[k][1] = key
    THEN [k \in 1..Len(members) |->
             IF members[k][1] = key THEN <<key, val>> ELSE members[k]]
    ELSE Append(members, <<key, val>>)

RECURSIVE ParseValue(_, _)
RECURSIVE AfterKey(_, _, _)
RECURSIVE AfterMember(_, _, _, _)

\* the members of an object from position i on, members read so far
ParseMembers(text, i, members) ==
    AfterKey(text, ParseString(text, i), members)

\* after "key": value, at position i: a comma and more members, or }
AfterComma(text, i, members) ==
    CASE At(text, i) = "," ->
            AfterKey(text, ParseString(text, SkipWs(text, i + 1)), members)
      [] At(text, i) = "}" -> Parsed(JObj(members), i + 1)
      [] OTHER -> Failed

\* member is the outcome of parsing the value of key
AfterMember(text, key, member, members) ==
    IF ~member.ok THEN Failed
    ELSE AfterComma(text, SkipWs(text, member.pos),
                    PutMember(members, key, member.val))

\* key is the outcome of parsing a member's name, a colon follows it
AfterKey(text, key, members) ==
    CASE ~key.ok -> Failed
      [] key.ok /\ At(text, SkipWs(text, key.pos)) = ":" ->
            AfterMember(text, key.val.str,
                ParseValue(text, SkipWs(text, SkipWs(text, key.pos) + 1)),
                members)
      [] OTHER -> Failed

\* i is the position after the opening brace, whitespace skipped
ParseObject(text, i) ==
    IF At(text, i) = "}" THEN Parsed(JObj(<<>>), i + 1)
    ELSE ParseMembers(text, i, <<>>)

ParseValue(text, i) ==
    CASE At(text, i) = "\"" -> ScanString(text, i + 1, "")
      [] At(text, i) = "{" -> ParseObject(text, SkipWs(text, i + 1))
      [] OTHER -> Failed

\* the whole document: one value, then only whitespace
WholeDocument(text, r) ==
    IF r.ok /\ SkipWs(text, r.pos) > Len(text)
    THEN [ok |-> TRUE, val |-> r.val]
    ELSE [ok |-> FALSE, val |-> JStr("")]

\* json.loads(text), for documents of strings and objects
json_loads(text) == WholeDocument(text, ParseValue(text, SkipWs(text, 1)))

\* an open that writes text over the old content without truncating it
OpenW_NoTruncate(old, text) ==
    IF Len(old) > Len(text)
    THEN text \o SubSeq(old, Len(text) + 1, Len(old))
    ELSE text

\* line 63: open(results_file, 'w') and the write: the old content goes
OpenW(old, text) == text

\* line 56: results_file = Path(output_dir) / f"{command_name}-results.json"
FileName(command) == command \o "-results.json"

\* the content of the file called name in directory d, "" when it does
\* not exist
Content(d, name) == IF name \in DOMAIN d.files THEN d.files[name] ELSE ""

\* lines 55-64: the directory after write_results
write_results(d, command, items) ==
    [dir |-> "dir",
     files |-> (FileName(command) :>
                   OpenW(Content(d, FileName(command)),
                         json_dump(command, items))) @@ d.files]

CommandNames == {"doi_checker", "my \"checker\""}

ResultDicts == {
    <<>>,
    <<<<"a.ipynb", "success">>>>,
    <<<<"a.ipynb", "success">>, <<"b.ipynb", "failure">>>>,
    <<<<"c:\\nb\\x.ipynb", "skipped">>, <<"the \"draft\".ipynb", "failure">>>> }

NoFiles == [name \in {} |-> ""]

\* output_dir before the first call: absent, empty, or holding a file
\* left by an earlier run
OldTexts(c) ==
    {"", "not json",
     json_dump(c, <<<<"old.ipynb", "failure">>, <<"z.ipynb", "success">>>>)}

Disks ==
    {[dir |-> "absent", files |-> NoFiles], [dir |-> "dir", files |-> NoFiles]}
    \cup UNION {{[dir |-> "dir", files |-> (FileName(c) :> old)] :
                   old \in OldTexts(c)} : c \in CommandNames}

WriteInit ==
    /\ DoiIdle /\ MetaIdle
    /\ pc = "write"
    /\ disk \in Disks
    /\ cwd = <<>> /\ threshold = coverage_threshold
    /\ command_name = "none" /\ notebook_results = <<>> /\ log = <<>>
    /\ idx = 0
    /\ checker = "none" /\ config_file = <<>> /\ config = <<>>
    /\ check_id = "none" /\ argv = <<>> /\ notebooks = <<>> /\ fs = <<>>
    /\ overall_result = 0 /\ exit_code = -1 /\ results_file = NoResultsFile
    /\ nb = Missing /\ result = "none"

\* one call write_results(command_name, notebook_results, output_dir)
WriteCall ==
    /\ pc = "write" /\ idx < MaxWrites
    /\ \E c \in CommandNames, items \in ResultDicts :
          /\ command_name' = c
          /\ notebook_results' = items
          /\ disk' = write_results(disk, c, items)
          /\ log' = Append(log, <<c, items>>)
    /\ idx' = idx + 1
    /\ UNCHANGED <<pc, checker, config_file, config, check_id, argv, notebooks,
                   fs, overall_result, exit_code, results_file, nb, result,
                   cwd, threshold, doiVars, metaVars>>

WriteNext == WriteCall

SpecWrite == WriteInit /\ [][WriteNext]_vars

\* C13: after write_results(name, results, dir), parsing
\* <dir>/<name>-results.json yields exactly {"command": name, "results":
\* results}, whether the directory was absent or present before and
\* whatever file of that name was there: only the last write is left.
C13_RoundTrip ==
    idx > 0 =>
       /\ disk.dir = "dir"
       /\ FileName(command_name) \in DOMAIN disk.files
       /\ json_loads(disk.files[FileName(command_name)]) =
             [ok |-> TRUE,
              val |-> JObj(<<
                 <<"command", JStr(command_name)>>,
                 <<"results",
                   JObj([k \in 1..Len(notebook_results) |->
                           <<notebook_results[k][1],
                             JStr(notebook_results[k][2])>>])>> >>)]

\* two writes under the same name, the second shorter than the first,
\* with keys that need escaping
C13_Witness ==
    /\ idx = 2
    /\ log[1][1] = log[2][1]
    /\ Len(log[1][2]) = 2 /\ Len(log[2][2]) = 1
    /\ \E k \in 1..2 : InStr("\"", log[1][2][k][1])

(***************************************************************************)
(* test_checker.py: check_tests over what it can find                      *)
(***************************************************************************)

Thresholds == {0, coverage_threshold, 100}

TestInit ==
    /\ DoiIdle /\ MetaIdle
    /\ pc = "test_start"
    /\ cwd \in TestEnvs
    /\ threshold \in Thresholds
    /\ result = "none"
    /\ checker = "none" /\ config_file = <<>> /\ config = <<>>
    /\ check_id = "none" /\ argv = <<>> /\ notebooks = <<>> /\ idx = 0
    /\ fs = <<>> /\ notebook_results = <<>> /\ overall_result = 0
    /\ exit_code = -1 /\ log = <<>> /\ results_file = NoResultsFile
    /\ command_name = "none" /\ disk = <<>> /\ nb = Missing

\* result = check_tests(notebook, coverage_threshold)
TestCheck ==
    /\ pc = "test_start"
    /\ result' = check_tests(cwd, threshold)
    /\ pc' = "done"
    /\ UNCHANGED <<cliVars, doiVars, metaVars, nb>>

TestNext == TestCheck

SpecTest == TestInit /\ [][TestNext]_vars

\* the line-rate texts that are numbers, and their value in units of
\* 1/10000
C14_Rate ==
    [l \in {"0", "0.5", "0.79", "0.7999", "0.8", "0.80", "0.8001", "1", "1.0"}
       |-> CASE l = "0" -> 0
             [] l = "0.5" -> 5000
             [] l = "0.79" -> 7900
             [] l = "0.7999" -> 7999
             [] l \in {"0.8", "0.80"} -> 8000
             [] l = "0.8001" -> 8001
             [] l \in {"1", "1.0"} -> 10000]

\* the cases the claim lists as failure
C14_MustFail ==
    \/ ~cwd.test_files
    \/ cwd.run \in {"FileNotFoundError", "TimeoutExpired"}
    \/ cwd.coverage_xml \in {"absent", "malformed"}
    \/ cwd.coverage_xml = "valid" /\ cwd.line_rate \notin DOMAIN C14_Rate

\* the line-rate of a report that parses, 0 when it has no such attribute
C14_LineRate ==
    IF cwd.coverage_xml = "no_line_rate" THEN 0 ELSE C14_Rate[cwd.line_rate]

C14_WitnessMalformed ==
    /\ pc = "done" /\ cwd.test_files /\ cwd.run = "completed"
    /\ cwd.coverage_xml = "valid" /\ cwd.line_rate = "abc"
    /\ result = "failure"

====
